---- MODULE Spec2Model ----
(***************************************************************************)
(* Model of the pass-prediction core of satelites-arg-web (src/script.js): *)
(* the batch scheduler of App.prediction (showBestPasses,                  *)
(* startPassCalculation, calculateNextPassBatch, updateViewMoreButton,     *)
(* stopPassCalculation, showPreviousBestPasses), the best-passes cache in  *)
(* sessionStorage, and the pass detector calculateVisiblePasses.           *)
(*                                                                         *)
(* Time is counted in minutes from the local midnight of day 0.  The       *)
(* external collaborators (SGP4 propagation, look angles, darkness and     *)
(* illumination tests) are a fixed sky: a table of sample points.          *)
(***************************************************************************)
EXTENDS Integers, Sequences, FiniteSets, TLC

----------------------------------------------------------------------------
(* Bounds of the model *)

\* the clock stops advancing at MaxTime minutes
MaxTime == 15
\* number of AbortControllers (sessions) that may be created
MaxSessions == 2
\* number of user events other than view-more and show-previous clicks
\* (navigation, location, source filter, favorites, passes modal)
MaxUserEvents == 4
\* iterations of a stepped run of the pass detector
MaxSamples == 4
\* samples of the orbit the proximity scanner clips
MaxTrack == 4
\* iterations of a stepped run of the pass detector under a periodic sky
MaxPeriodicSamples == 44

----------------------------------------------------------------------------
(* Program constants *)

\* config.passCalculationBatchSize (days), src/script.js:244
passCalculationBatchSize == 5
\* config.passCalculationMaxDays, src/script.js:245
passCalculationMaxDays == 30
\* config.bestPassesCacheTTL = 15 * 60 * 1000 ms, in minutes, src/script.js:246
bestPassesCacheTTL == 15
\* config.predictionPastDays, src/script.js:241
predictionPastDays == 3
\* config.maxPassesToCalculate, src/script.js:242
maxPassesToCalculate == 20
\* batch sizes chosen by startPassCalculation for the best-passes screen, src/script.js:4443
BatchDaysAll == 1
BatchDaysFavorites == 15
\* elevation threshold of the pass detector (degrees), src/script.js:4004
ElevationThreshold == 10
\* threshold of a "best" pass (degrees), src/script.js:4310
BestPassElevation == 50
\* minutes of a day: days * 24 * 60, src/script.js:3990
MinutesPerDay == 1440
\* minutes the clock advances in one step of the model
ClockStep == 15

\* null of a Date-valued field
Null == -999999

----------------------------------------------------------------------------
(* The sky: satellites, observer locations and the sample table *)

NoLoc == "null"
Locations == {"L1", "L2"}
Sources == {"favorites", "all"}
Targets == {"bestPasses", "modal"}

Satellites == {"s1", "s2", "s3"}

\* App.config.knownSatellites / latestStarlinks / brightestSatellites, in
\* the order showBestPasses adds them to its map
KnownSats == <<"s2", "s3">>
\* App.state.trackedSatellites while the passes modal is used
TrackedSats == <<"s1">>
\* App.mySatellites.loadFromStorage() at start-up
InitialFavorites == <<"s1", "s2">>
\* the lists of favorites the user switches between
FavoriteLists == {<<>>, InitialFavorites}

\* offsets (minutes in the day) at which the sky is sampled, ascending
SampleOffsets == <<0, 5, 10, 15, 720, 725, 730, 735>>

\* geometric passes of the sky: satellite, location, day, first offset, kind
SkyEvents ==
  { [sat |-> "s1", loc |-> "L1", day |-> 0,  slot |-> 720, kind |-> "high"],
    [sat |-> "s2", loc |-> "L1", day |-> 0,  slot |-> 0,   kind |-> "high"],
    [sat |-> "s3", loc |-> "L1", day |-> 1,  slot |-> 720, kind |-> "low"],
    [sat |-> "s2", loc |-> "L1", day |-> 3,  slot |-> 720, kind |-> "day"],
    [sat |-> "s1", loc |-> "L1", day |-> 16, slot |-> 720, kind |-> "high"],
    [sat |-> "s2", loc |-> "L1", day |-> 31, slot |-> 720, kind |-> "high"],
    [sat |-> "s1", loc |-> "L1", day |-> -1, slot |-> 720, kind |-> "high"],
    [sat |-> "s2", loc |-> "L2", day |-> 1,  slot |-> 720, kind |-> "high"],
    [sat |-> "s1", loc |-> "L2", day |-> 20, slot |-> 0,   kind |-> "high"] }

ProfileElevation(kind) ==
  IF kind = "low" THEN <<5, 40, 20, 5>> ELSE <<5, 60, 30, 5>>

ProfileVisible(kind) ==
  IF kind = "day" THEN <<FALSE, FALSE, FALSE, FALSE>>
                  ELSE <<FALSE, TRUE, TRUE, FALSE>>

DayOf(t) == t \div MinutesPerDay
OffsetOf(t) == t % MinutesPerDay

\* the sample the collaborators return for a satellite at time t:
\* propagate + ecfToLookAngles (elevation, azimuth) and
\* _isObserverInDarkness && isSatIlluminated (isVisible)
SkySample(sat, loc, t) ==
  LET evs == { e \in SkyEvents : /\ e.sat = sat /\ e.loc = loc /\ e.day = DayOf(t)
                                 /\ OffsetOf(t) \in {e.slot, e.slot + 5, e.slot + 10, e.slot + 15} }
  IN IF evs = {}
       THEN [time |-> t, elevation |-> 0, isVisible |-> FALSE, az |-> 0]
       ELSE LET e == CHOOSE x \in evs : TRUE
                i == ((OffsetOf(t) - e.slot) \div 5) + 1
            IN [time |-> t, elevation |-> ProfileElevation(e.kind)[i],
                isVisible |-> ProfileVisible(e.kind)[i], az |-> 10 * i]

----------------------------------------------------------------------------
(* calculateVisiblePasses: the pass detector *)

\* the instants at which the loop of calculateVisiblePasses samples the sky,
\* in loop order: baseDate is the local midnight of startDate for a future
\* scan and startDate itself for a past scan; the loop covers
\* totalMinutes = days * 24 * 60 minutes forward or backward from baseDate
LoopTimes(startDate, days, direction) ==
  LET baseDate == IF direction = "future" THEN DayOf(startDate) * MinutesPerDay
                  ELSE startDate
      totalMinutes == days * MinutesPerDay
      n == Len(SampleOffsets)
      firstDay == DayOf(baseDate)
      forward == [k \in 1..((days + 1) * n) |->
                    (firstDay + ((k - 1) \div n)) * MinutesPerDay
                      + SampleOffsets[((k - 1) % n) + 1]]
      backward == [k \in 1..((days + 1) * n) |->
                     (firstDay - ((k - 1) \div n)) * MinutesPerDay
                       + SampleOffsets[n - ((k - 1) % n)]]
      InFuture(t) == baseDate <= t /\ t < baseDate + totalMinutes
      InPast(t) == baseDate - totalMinutes < t /\ t <= baseDate
  IN IF direction = "future" THEN SelectSeq(forward, InFuture)
                             ELSE SelectSeq(backward, InPast)

NewPass(time, direction) ==
  [start |-> time, end |-> Null, visibleStart |-> Null, visibleEnd |-> Null,
   maxElevation |-> 0, points |-> <<>>, hasVisibleSegment |-> FALSE,
   isPast |-> (direction = "past"), startAz |-> Null, endAz |-> Null]

\* the trimming and the azimuths of a pass that is emitted
ClosePass(cp) ==
  LET trimmed == [cp EXCEPT !.start = cp.visibleStart, !.end = cp.visibleEnd]
      AtStart(p) == p.time = trimmed.start
      InWindow(p) == p.time >= trimmed.start /\ p.time <= trimmed.end
      firstVisible == SelectSeq(trimmed.points, AtStart)
      allVisiblePoints == SelectSeq(trimmed.points, InWindow)
  IN [trimmed EXCEPT
        !.startAz = IF firstVisible # <<>> THEN firstVisible[1].az ELSE @,
        !.endAz = IF allVisiblePoints # <<>>
                    THEN allVisiblePoints[Len(allVisiblePoints)].az ELSE @]

\* a loop that is never left early
ScanStops_Never(direction, finalPasses) == FALSE

\* if (direction === 'future' && finalPasses.length >= App.config.maxPassesToCalculate) break
ScanStops(direction, finalPasses) ==
  direction = "future" /\ Len(finalPasses) >= maxPassesToCalculate

\* the loop body taking the maximum over every sample of the pass
DetectorStep_MaxOverAll(d, s, direction) ==
  LET opened == s.elevation > ElevationThreshold /\ ~d.inPass
      inPass1 == d.inPass \/ opened
      cp1 == IF opened THEN NewPass(s.time, direction) ELSE d.currentPass
      cp2 == IF ~inPass1 THEN cp1
             ELSE IF s.isVisible
               THEN [cp1 EXCEPT !.points = Append(@, s),
                                !.visibleStart = IF @ = Null THEN s.time ELSE @,
                                !.visibleEnd = s.time,
                                !.hasVisibleSegment = TRUE,
                                !.maxElevation = IF s.elevation > @ THEN s.elevation ELSE @]
               ELSE [cp1 EXCEPT !.points = Append(@, s),
                                !.maxElevation = IF s.elevation > @ THEN s.elevation ELSE @]
      closed == s.elevation < ElevationThreshold /\ inPass1
      emitted == closed /\ cp2.hasVisibleSegment /\ Len(cp2.points) > 1
      cp3 == IF emitted THEN ClosePass(cp2)
             ELSE IF closed THEN [cp2 EXCEPT !.end = s.time] ELSE cp2
      final1 == IF emitted THEN Append(d.finalPasses, cp3) ELSE d.finalPasses
  IN [inPass |-> inPass1 /\ ~closed,
      currentPass |-> cp3,
      finalPasses |-> final1,
      stopped |-> closed /\ direction = "future" /\ Len(final1) >= maxPassesToCalculate]

\* the loop body emitting every pass of two samples or more
DetectorStep_NoVisibleTest(d, s, direction) ==
  LET opened == s.elevation > ElevationThreshold /\ ~d.inPass
      inPass1 == d.inPass \/ opened
      cp1 == IF opened THEN NewPass(s.time, direction) ELSE d.currentPass
      cp2 == IF ~inPass1 THEN cp1
             ELSE IF s.isVisible
               THEN [cp1 EXCEPT !.points = Append(@, s),
                                !.visibleStart = IF @ = Null THEN s.time ELSE @,
                                !.visibleEnd = s.time,
                                !.hasVisibleSegment = TRUE,
                                !.maxElevation = IF s.elevation > @ THEN s.elevation ELSE @]
               ELSE [cp1 EXCEPT !.points = Append(@, s)]
      closed == s.elevation < ElevationThreshold /\ inPass1
      emitted == closed /\ Len(cp2.points) > 1
      cp3 == IF emitted THEN ClosePass(cp2)
             ELSE IF closed THEN [cp2 EXCEPT !.end = s.time] ELSE cp2
      final1 == IF emitted THEN Append(d.finalPasses, cp3) ELSE d.finalPasses
  IN [inPass |-> inPass1 /\ ~closed,
      currentPass |-> cp3,
      finalPasses |-> final1,
      stopped |-> closed /\ direction = "future" /\ Len(final1) >= maxPassesToCalculate]

\* the loop body closing a pass at the threshold itself
DetectorStep_ClosesAtThreshold(d, s, direction) ==
  LET opened == s.elevation > ElevationThreshold /\ ~d.inPass
      inPass1 == d.inPass \/ opened
      cp1 == IF opened THEN NewPass(s.time, direction) ELSE d.currentPass
      cp2 == IF ~inPass1 THEN cp1
             ELSE IF s.isVisible
               THEN [cp1 EXCEPT !.points = Append(@, s),
                                !.visibleStart = IF @ = Null THEN s.time ELSE @,
                                !.visibleEnd = s.time,
                                !.hasVisibleSegment = TRUE,
                                !.maxElevation = IF s.elevation > @ THEN s.elevation ELSE @]
               ELSE [cp1 EXCEPT !.points = Append(@, s)]
      closed == s.elevation <= ElevationThreshold /\ inPass1
      emitted == closed /\ cp2.hasVisibleSegment /\ Len(cp2.points) > 1
      cp3 == IF emitted THEN ClosePass(cp2)
             ELSE IF closed THEN [cp2 EXCEPT !.end = s.time] ELSE cp2
      final1 == IF emitted THEN Append(d.finalPasses, cp3) ELSE d.finalPasses
  IN [inPass |-> inPass1 /\ ~closed,
      currentPass |-> cp3,
      finalPasses |-> final1,
      stopped |-> closed /\ direction = "future" /\ Len(final1) >= maxPassesToCalculate]

\* one iteration of the loop body on sample s; d is the detector state
\* [inPass, currentPass, finalPasses, stopped]
DetectorStep(d, s, direction) ==
  LET opened == s.elevation > ElevationThreshold /\ ~d.inPass
      inPass1 == d.inPass \/ opened
      cp1 == IF opened THEN NewPass(s.time, direction) ELSE d.currentPass
      cp2 == IF ~inPass1 THEN cp1
             ELSE IF s.isVisible
               THEN [cp1 EXCEPT !.points = Append(@, s),
                                !.visibleStart = IF @ = Null THEN s.time ELSE @,
                                !.visibleEnd = s.time,
                                !.hasVisibleSegment = TRUE,
                                !.maxElevation = IF s.elevation > @ THEN s.elevation ELSE @]
               ELSE [cp1 EXCEPT !.points = Append(@, s)]
      closed == s.elevation < ElevationThreshold /\ inPass1
      emitted == closed /\ cp2.hasVisibleSegment /\ Len(cp2.points) > 1
      cp3 == IF emitted THEN ClosePass(cp2)
             ELSE IF closed THEN [cp2 EXCEPT !.end = s.time] ELSE cp2
      final1 == IF emitted THEN Append(d.finalPasses, cp3) ELSE d.finalPasses
  IN [inPass |-> inPass1 /\ ~closed,
      currentPass |-> cp3,
      finalPasses |-> final1,
      stopped |-> closed /\ ScanStops(direction, final1)]

\* the state of the detector before the first iteration
DetectorInit(direction) ==
  [inPass |-> FALSE, currentPass |-> NewPass(Null, direction),
   finalPasses |-> <<>>, stopped |-> FALSE]

\* an iteration in which a collaborator throws: catch (e) { inPass = false; continue; }
DetectorCatch(d) == [d EXCEPT !.inPass = FALSE]

\* the loop over a sequence of samples that were propagated without error
RECURSIVE DetectorFeed(_, _, _, _)
DetectorFeed(d, samples, i, direction) ==
  IF i > Len(samples) \/ d.stopped THEN d
  ELSE DetectorFeed(DetectorStep(d, samples[i], direction), samples, i + 1, direction)

RECURSIVE DetectorRun(_, _, _, _, _, _)
DetectorRun(d, sat, coords, times, i, direction) ==
  IF i > Len(times) \/ d.stopped THEN d
  ELSE DetectorRun(DetectorStep(d, SkySample(sat, coords, times[i]), direction),
                   sat, coords, times, i + 1, direction)

calculateVisiblePasses(sat, coords, days, direction, startDate) ==
  DetectorRun(DetectorInit(direction),
              sat, coords, LoopTimes(startDate, days, direction), 1, direction).finalPasses

\* the values Date.now() takes in the model
ClockTimes == { k * ClockStep : k \in 0..(MaxTime \div ClockStep) }

\* the one-day future scans of calculateNextPassBatch, tabulated:
\* calculateVisiblePasses(sat, coords, { days: 1, startDate: currentDate })
\* for every currentDate a batch can reach
FutureScan ==
  [sat \in Satellites, loc \in Locations,
   currentDate \in { t + d * MinutesPerDay : t \in ClockTimes,
                                            d \in 0..(4 * passCalculationMaxDays) } |->
     calculateVisiblePasses(sat, loc, 1, "future", currentDate)]

\* the past scans of showPreviousBestPasses, tabulated:
\* calculateVisiblePasses(sat, coords, { days, direction: 'past' })
PastScan ==
  [sat \in Satellites, loc \in Locations, days \in {1, predictionPastDays},
   startDate \in ClockTimes |->
     calculateVisiblePasses(sat, loc, days, "past", startDate)]

----------------------------------------------------------------------------
(* Helpers of the batch scheduler *)

\* Array.prototype.sort((a, b) => a.start - b.start): stable, ascending
RECURSIVE InsertByStart(_, _)
InsertByStart(sorted, p) ==
  IF sorted = <<>> THEN <<p>>
  ELSE IF sorted[Len(sorted)].start <= p.start THEN Append(sorted, p)
  ELSE Append(InsertByStart(SubSeq(sorted, 1, Len(sorted) - 1), p), sorted[Len(sorted)])

RECURSIVE SortFrom(_, _, _)
SortFrom(acc, s, i) ==
  IF i > Len(s) THEN acc ELSE SortFrom(InsertByStart(acc, s[i]), s, i + 1)

\* a sort that leaves the array as it is
SortByStart_Unsorted(s) == s

SortByStart(s) == SortFrom(<<>>, s, 1)

\* passes.map(p => ({ ...p, satName: sat.name, tle: sat.tle })); the
\* satellite's name stands for its name and its element set.  The sample
\* buffer (points) is not carried along: nothing reads it after the scan.
WithSatInfo(passes, sat) ==
  [i \in 1..Len(passes) |->
     [start |-> passes[i].start, end |-> passes[i].end,
      visibleStart |-> passes[i].visibleStart, visibleEnd |-> passes[i].visibleEnd,
      maxElevation |-> passes[i].maxElevation, isPast |-> passes[i].isPast,
      startAz |-> passes[i].startAz, endAz |-> passes[i].endAz,
      satName |-> sat, datesAsStrings |-> FALSE]]

\* JSON.stringify of the pass list followed by JSON.parse and the revival of
\* start and end (new Date(pass.start), new Date(pass.end)): the other
\* Date-valued fields (visibleStart, visibleEnd) come back as ISO strings
JsonRoundTrip(passes) ==
  [i \in 1..Len(passes) |-> [passes[i] EXCEPT !.datesAsStrings = TRUE]]

\* the de-duplicated satellite list showBestPasses builds for a source
RECURSIVE Dedup(_, _)
Dedup(acc, s) ==
  IF s = <<>> THEN acc
  ELSE Dedup(IF \E i \in 1..Len(acc) : acc[i] = Head(s) THEN acc ELSE Append(acc, Head(s)),
             Tail(s))

SatsOfSource(source, favs) ==
  IF source = "all" THEN Dedup(<<>>, favs \o KnownSats) ELSE favs

\* the scans of one batch, in the order of the two loops: for each of
\* batchSize days from startDate, for each satellite, one one-day future scan
RECURSIVE ScanSats(_, _, _, _)
ScanSats(sats, j, coords, currentDate) ==
  IF j > Len(sats) THEN <<>>
  ELSE <<[sat |-> sats[j], date |-> currentDate,
          passes |-> WithSatInfo(FutureScan[sats[j], coords, currentDate], sats[j])]>>
       \o ScanSats(sats, j + 1, coords, currentDate)

RECURSIVE ScanDays(_, _, _, _, _)
ScanDays(sats, coords, startDate, i, batchSize) ==
  IF i >= batchSize THEN <<>>
  ELSE ScanSats(sats, 1, coords, startDate + i * MinutesPerDay)
       \o ScanDays(sats, coords, startDate, i + 1, batchSize)

\* passesInBatch: the passes of the scans, in scan order
RECURSIVE PassesOfScans(_, _)
PassesOfScans(scans, k) ==
  IF k > Len(scans) THEN <<>> ELSE scans[k].passes \o PassesOfScans(scans, k + 1)

\* the passes showPreviousBestPasses computes: past scans, best passes only
RECURSIVE PreviousPasses(_, _, _, _, _)
PreviousPasses(sats, j, coords, days, startDate) ==
  IF j > Len(sats) THEN <<>>
  ELSE LET passes == WithSatInfo(PastScan[sats[j], coords, days, startDate], sats[j])
           IsBest(p) == p.maxElevation > BestPassElevation
       IN SelectSeq(passes, IsBest) \o PreviousPasses(sats, j + 1, coords, days, startDate)

----------------------------------------------------------------------------
(* State *)

VARIABLES
  now,                       \* Date.now(), minutes
  observerCoords,            \* App.state.observerCoords
  currentBestPassesSource,   \* App.state.currentBestPassesSource
  favorites,                 \* App.mySatellites.loadFromStorage()
  screen,                    \* the visible screen
  passesModalOpen,           \* the passes modal is shown
  passCalculation,           \* App.state.passCalculation
  abortedControllers,        \* the reachable AbortControllers whose signal is aborted
  controllersCreated,        \* number of AbortControllers created so far
  viewMoreDisabled,          \* viewMoreBtnBestPasses.disabled, viewMoreBtnModal.disabled
  viewMoreHidden,            \* the 'hidden' class of the two view-more containers
  timers,                    \* pending setTimeout callbacks, in scheduling order
  previousBestPassesLoaded,  \* App.state.previousBestPassesLoaded
  showPreviousDisabled,      \* showPreviousBestPassesBtn.disabled
  sessionStorage,            \* the best_passes_cache_* entries
  pendingShow,               \* a showBestPasses call waits for an animation or a fetch
  userEvents,                \* number of user events so far (bound of the model)
  sessionFound,              \* history: the passes found by the batches of the current session
  cancelUpTo,                \* history: the controller current at the last location change,
                             \*          source or favorites change, or screen change
  firstCompleted,            \* history: per cache key, the list of the first search that
                             \*          completed within the running TTL
  lastOp,                    \* what the last step did (history)
  scan,                      \* a run of calculateVisiblePasses on a stream of samples
  nearby,                    \* App.state.isNearbyModeActive and App.state.nearby
  sky,                       \* what the proximity scanner's collaborators return now
  tracking                   \* App.state.trackedSatellites and what is loaded into it

appVars == <<now, observerCoords, currentBestPassesSource, favorites, screen,
             passesModalOpen, passCalculation, abortedControllers, controllersCreated,
             viewMoreDisabled, viewMoreHidden, timers, previousBestPassesLoaded,
             showPreviousDisabled, sessionStorage, pendingShow, userEvents,
             sessionFound, cancelUpTo, firstCompleted, lastOp>>

vars == <<appVars, scan, nearby, sky, tracking>>

NoEntry == [present |-> FALSE, timestamp |-> 0, passes |-> <<>>]
CacheKeys == Sources \X Locations
NoController == 0

\* the first completed search of a key still counts at time t
FirstCompletedValid(fc, t) == fc.present /\ (t - fc.timestamp) < bestPassesCacheTTL

OtherOp(name) ==
  [op |-> name, sid |-> NoController, ctrl |-> NoController, ran |-> FALSE,
   threw |-> FALSE, firstDay |-> 0, batchSize |-> 0, scanned |-> <<>>,
   found |-> FALSE, wrote |-> <<>>, outcome |-> "none", aborted |-> {},
   caught |-> FALSE]

AppInit ==
  /\ now = 0
  /\ observerCoords = "L1"
  /\ currentBestPassesSource = "favorites"
  /\ favorites = InitialFavorites
  /\ screen = "start"
  /\ passesModalOpen = FALSE
  /\ passCalculation = [inProgress |-> FALSE, controller |-> NoController,
                        daysCalculated |-> 0, firstPassFound |-> FALSE,
                        startDate |-> Null, satsToCalculate |-> <<>>,
                        renderTarget |-> "null", allFoundPasses |-> <<>>,
                        daysPerBatch |-> 0]
  /\ abortedControllers = {}
  /\ controllersCreated = 0
  /\ viewMoreDisabled = [t \in Targets |-> FALSE]
  /\ viewMoreHidden = [t \in Targets |-> TRUE]
  /\ timers = <<>>
  /\ previousBestPassesLoaded = FALSE
  /\ showPreviousDisabled = FALSE
  /\ sessionStorage = [k \in CacheKeys |-> NoEntry]
  /\ pendingShow = FALSE
  /\ userEvents = 0
  /\ sessionFound = <<>>
  /\ cancelUpTo = NoController
  /\ firstCompleted = [k \in CacheKeys |-> NoEntry]
  /\ lastOp = OtherOp("other")

\* no run of the detector is being stepped
NoScan == [direction |-> "none", i |-> 0, fed |-> <<>>, threw |-> 0,
           d |-> DetectorInit("none"), period |-> 0]

\* the satellites gatherSatellites collects, by TLE id
Catalog == <<"n1", "n2">>

\* the proximity mode before nearbyMode.start(); crossings, before and lastOp
\* are history: the calls of _getIntersectionPoint of the last update, the
\* ids of the active set before it, and the last operation
NearbyOff ==
  [active |-> FALSE, allSats |-> <<>>, satellites |-> <<>>,
   selectedSatForOrbit |-> "none", crossings |-> <<>>, before |-> {},
   lastOp |-> "none", updateInterval |-> 0, running |-> {}]

\* the propagation 1 second ahead of a satellite that flies due north
North == [ok |-> TRUE, wraps |-> FALSE, bearing |-> 0]

\* a propagation 1 second ahead that throws
AheadThrows == [ok |-> FALSE, wraps |-> FALSE, bearing |-> 0]

\* a satellite whose propagation throws
NotPropagated == [ok |-> FALSE, distance |-> 0, ahead |-> AheadThrows]

\* App.state.nextVisiblePass = null
NoPass == [start |-> Null, end |-> Null]

\* nothing is loaded and nothing is tracked; realTime tells whether the two
\* intervals of startRealTimeUpdates run; redrawn is history: what the
\* 10-second ticks have redrawn since the tracked set last changed, the last
\* three of them; computedAt is history: when findNextVisiblePass last ran;
\* threw tells whether the last
\* operation on the tracked satellites ended in an error that nothing caught
TrackingOff ==
  [tleInput |-> <<>>, trackedSatellites |-> <<>>, header |-> FALSE,
   realTime |-> FALSE, threw |-> FALSE, lastOp |-> "none",
   nextVisiblePass |-> NoPass, nextSatToUpdateIndex |-> 0,
   isTimeTraveling |-> FALSE, currentTime |-> 0, redrawn |-> <<>>,
   computedAt |-> Null]

\* nothing moves in the sky and no orbit is sampled
SkyIdle ==
  [outcome |-> [id \in {Catalog[k] : k \in 1..Len(Catalog)} |-> NotPropagated],
   track |-> <<>>, visibleFrom |-> 0, visibleUntil |-> 0]

\* no scan is being stepped and the proximity mode is off
Init ==
  /\ AppInit
  /\ scan = NoScan
  /\ nearby = NearbyOff
  /\ sky = SkyIdle
  /\ tracking = TrackingOff

----------------------------------------------------------------------------
(* The operations of App.prediction, as functions of the values they read *)

\* a signal that never reports the abort
SignalAborted_Never(pc, aborted) == FALSE

\* controller.signal.aborted of the current session
SignalAborted(pc, aborted) == pc.controller \in aborted

\* stopPassCalculation
stopPassCalculation(pc, aborted) ==
  IF pc.inProgress
    THEN [pc |-> [pc EXCEPT !.inProgress = FALSE], aborted |-> aborted \cup {pc.controller}]
    ELSE [pc |-> pc, aborted |-> aborted]

\* the view-more button calculateNextPassBatch and updateViewMoreButton pick
ButtonOf(pc) == IF pc.renderTarget = "bestPasses" THEN "bestPasses" ELSE "modal"

BatchTimer(pc) ==
  [kind |-> "batch", delay |-> 50, btn |-> ButtonOf(pc), sats |-> <<>>,
   target |-> "null", sid |-> pc.controller]

StartTimer(sats, target) ==
  [kind |-> "start", delay |-> 0, btn |-> "null", sats |-> sats,
   target |-> target, sid |-> NoController]

PreviousTimer ==
  [kind |-> "previous", delay |-> 50, btn |-> "null", sats |-> <<>>,
   target |-> "null", sid |-> NoController]

\* the synchronous part of calculateNextPassBatch: return when the button is
\* disabled, else disable it and schedule the batch callback
calculateNextPassBatch(pc, disabled, tms) ==
  IF disabled[ButtonOf(pc)]
    THEN [disabled |-> disabled, timers |-> tms]
    ELSE [disabled |-> [disabled EXCEPT ![ButtonOf(pc)] = TRUE],
          timers |-> Append(tms, BatchTimer(pc))]

\* the list renderFilteredPasses renders (currentPassFilter = 'all')
PassesToRender(pc, prevLoaded, t) ==
  LET IsBest(p) == p.maxElevation > BestPassElevation
      IsFuture(p) == p.start > t
      passesToConsider == SelectSeq(pc.allFoundPasses, IsBest)
  IN IF prevLoaded THEN passesToConsider ELSE SelectSeq(passesToConsider, IsFuture)

\* renderFilteredPasses: its effect on the view-more container
renderFilteredPasses(pc, prevLoaded, hidden, t) ==
  IF PassesToRender(pc, prevLoaded, t) = <<>> /\ ~pc.inProgress
    THEN [hidden EXCEPT !["bestPasses"] = TRUE]
    ELSE hidden

\* an entry that is still usable at the age of the TTL itself
IsCacheValid_Inclusive(entry, t) == (t - entry.timestamp) <= bestPassesCacheTTL

\* cachedData of showBestPasses is usable
IsCacheValid(entry, t) == (t - entry.timestamp) < bestPassesCacheTTL

\* an entry that was not written by updateViewMoreButton: its string is not
\* JSON ("unparsable"), is JSON but no object, as null ("notAnObject"), or is
\* an object whose passes are not a list of objects ("badPasses")
Damaged(entry) == "damage" \in DOMAIN entry
Damages == {"unparsable", "notAnObject", "badPasses"}

\* the try block of showBestPasses throws on the entry: JSON.parse throws, or
\* cachedData.timestamp throws, or, once the entry has passed the validity
\* test, cachedData.passes.forEach throws
ReadThrows(entry, t) ==
  /\ entry.present
  /\ Damaged(entry)
  /\ \/ entry.damage \in {"unparsable", "notAnObject"}
     \/ entry.damage = "badPasses" /\ (t - entry.timestamp) < bestPassesCacheTTL

\* a catch block that leaves the entry in place
CatchReadError_Keep(storage, key) == storage

\* catch (e) { ...; sessionStorage.removeItem(cacheKey); }
CatchReadError(storage, key) == [storage EXCEPT ![key] = NoEntry]

\* showBestPasses, from the values of the state it reads
showBestPasses(pc, coords, source, favs, storage, hidden, tms, t) ==
  LET satsToCalculate == SatsOfSource(source, favs)
      entry == storage[<<source, coords>>]
      caught == ReadThrows(entry, t)
      storage1 == IF caught THEN CatchReadError(storage, <<source, coords>>) ELSE storage
  IN IF coords = NoLoc
       THEN [pc |-> pc, hidden |-> [hidden EXCEPT !["bestPasses"] = TRUE],
             timers |-> tms, outcome |-> "noLocation", storage |-> storage,
             caught |-> FALSE]
     ELSE IF entry.present /\ ~Damaged(entry) /\ IsCacheValid(entry, t)
       THEN LET pc1 == [pc EXCEPT !.allFoundPasses = entry.passes]
            IN [pc |-> pc1, hidden |-> renderFilteredPasses(pc1, FALSE, hidden, t),
                timers |-> tms, outcome |-> "cacheHit", storage |-> storage,
                caught |-> FALSE]
     ELSE IF satsToCalculate = <<>>
       THEN [pc |-> pc, hidden |-> [hidden EXCEPT !["bestPasses"] = TRUE],
             timers |-> tms, outcome |-> "noSatellites", storage |-> storage1,
             caught |-> caught]
     ELSE [pc |-> pc, hidden |-> hidden,
           timers |-> Append(tms, StartTimer(satsToCalculate, "bestPasses")),
           outcome |-> "start", storage |-> storage1, caught |-> caught]

\* updateViewMoreButton: its effect on the container, the button and the cache
updateViewMoreButton(pc, coords, source, storage, hidden, disabled, t) ==
  IF pc.inProgress
    THEN [hidden |-> [hidden EXCEPT ![ButtonOf(pc)] = FALSE],
          disabled |-> [disabled EXCEPT ![ButtonOf(pc)] = FALSE],
          storage |-> storage, wrote |-> <<>>]
    ELSE [hidden |-> [hidden EXCEPT ![ButtonOf(pc)] = TRUE],
          disabled |-> disabled,
          storage |-> IF pc.renderTarget = "bestPasses" /\ coords # NoLoc
                        THEN [storage EXCEPT ![<<source, coords>>] =
                                [present |-> TRUE, timestamp |-> t,
                                 passes |-> JsonRoundTrip(pc.allFoundPasses)]]
                        ELSE storage,
          wrote |-> IF pc.renderTarget = "bestPasses" /\ coords # NoLoc
                      THEN <<source, coords>> ELSE <<>>]

\* one batch size for every target and source
DaysPerBatch_Fixed(renderTarget, source) == passCalculationBatchSize

\* the batch size startPassCalculation chooses
DaysPerBatch(renderTarget, source) ==
  IF renderTarget = "bestPasses"
    THEN (IF source = "all" THEN BatchDaysAll ELSE BatchDaysFavorites)
    ELSE passCalculationBatchSize

----------------------------------------------------------------------------
(* Timers *)

\* a pending callback may run when no callback scheduled before it has a
\* delay that is not larger (setTimeout keeps the order of equal delays)
CanFire(i) ==
  /\ i \in 1..Len(timers)
  /\ \A j \in 1..(i - 1) : timers[j].delay > timers[i].delay

RemoveAt(s, i) == SubSeq(s, 1, i - 1) \o SubSeq(s, i + 1, Len(s))

PendingStarts == Cardinality({ i \in 1..Len(timers) : timers[i].kind = "start" })

\* a new session may still be requested within the bound of the model
SessionBudget == controllersCreated + PendingStarts < MaxSessions

\* one more user event, within the bound of the model
UserEvent ==
  /\ userEvents < MaxUserEvents
  /\ userEvents' = userEvents + 1

\* history of an event that has to cancel the session in flight
CancellingEvent ==
  /\ cancelUpTo' = passCalculation.controller
  /\ UNCHANGED <<sessionFound, firstCompleted>>

NoHistory == UNCHANGED <<sessionFound, cancelUpTo, firstCompleted>>

----------------------------------------------------------------------------
(* Actions *)

\* showBestPasses called from an action whose own effects gave pc, coords,
\* source and storage; sets the variables showBestPasses can change
CallShowBestPasses(pc, coords, source, storage) ==
  LET r == showBestPasses(pc, coords, source, favorites, storage, viewMoreHidden, timers, now)
  IN /\ r.outcome = "start" => SessionBudget
     /\ passCalculation' = r.pc
     /\ viewMoreHidden' = r.hidden
     /\ timers' = r.timers
     /\ sessionStorage' = r.storage
     /\ previousBestPassesLoaded' = FALSE
     /\ showPreviousDisabled' = FALSE
     /\ lastOp' = [OtherOp("showBestPasses") EXCEPT !.outcome = r.outcome,
                                                   !.caught = r.caught]

\* navigation.renderScreen('best-passes-screen'): cancels the session; the
\* screen's showBestPasses runs when the exit animation has ended
GoToBestPasses ==
  /\ UNCHANGED <<scan, nearby, sky, tracking>>
  /\ UserEvent
  /\ CancellingEvent
  /\ screen # "bestPasses"
  /\ ~passesModalOpen
  /\ LET st == stopPassCalculation(passCalculation, abortedControllers)
     IN /\ passCalculation' = st.pc
        /\ abortedControllers' = st.aborted
  /\ screen' = "bestPasses"
  /\ pendingShow' = TRUE
  /\ lastOp' = OtherOp("other")
  /\ UNCHANGED <<now, observerCoords, currentBestPassesSource, favorites, passesModalOpen,
                 controllersCreated, viewMoreDisabled, viewMoreHidden, timers,
                 previousBestPassesLoaded, showPreviousDisabled, sessionStorage>>

\* navigation.renderScreen of any other screen: cancels the session
LeaveScreen(target) ==
  /\ UNCHANGED <<scan, nearby, sky, tracking>>
  /\ UserEvent
  /\ CancellingEvent
  /\ target \in {"start", "map"}
  /\ screen # target
  /\ ~passesModalOpen
  /\ LET st == stopPassCalculation(passCalculation, abortedControllers)
     IN /\ passCalculation' = st.pc
        /\ abortedControllers' = st.aborted
  /\ screen' = target
  /\ lastOp' = OtherOp("other")
  /\ UNCHANGED <<now, observerCoords, currentBestPassesSource, favorites, passesModalOpen,
                 controllersCreated, viewMoreDisabled, viewMoreHidden, timers,
                 previousBestPassesLoaded, showPreviousDisabled, sessionStorage, pendingShow>>

\* the showBestPasses call that waited for the animation or for the
\* time-zone fetch of handleCitySearch
PendingShowBestPasses ==
  /\ UNCHANGED <<scan, nearby, sky, tracking>>
  /\ NoHistory
  /\ UNCHANGED userEvents
  /\ pendingShow
  /\ pendingShow' = FALSE
  /\ CallShowBestPasses(passCalculation, observerCoords, currentBestPassesSource,
                        sessionStorage)
  /\ UNCHANGED <<now, observerCoords, currentBestPassesSource, favorites, screen,
                 passesModalOpen, abortedControllers, controllersCreated, viewMoreDisabled>>

\* location.handleCitySearch('') from the best-passes screen: the location is
\* cleared and showBestPasses follows at once
ClearLocation ==
  /\ UNCHANGED <<scan, nearby, sky, tracking>>
  /\ UserEvent
  /\ CancellingEvent
  /\ screen = "bestPasses"
  /\ observerCoords # NoLoc
  /\ observerCoords' = NoLoc
  /\ CallShowBestPasses(passCalculation, NoLoc, currentBestPassesSource, sessionStorage)
  /\ UNCHANGED <<now, currentBestPassesSource, favorites, screen, passesModalOpen,
                 abortedControllers, controllersCreated, viewMoreDisabled, pendingShow>>

\* location.handleCitySearch(city), geocoding answered: the coordinates are
\* set, and on the best-passes screen showBestPasses follows after the
\* time-zone fetch
SetLocation(loc) ==
  /\ UNCHANGED <<scan, nearby, sky, tracking>>
  /\ UserEvent
  /\ CancellingEvent
  /\ screen \in {"bestPasses", "map"}
  /\ ~passesModalOpen
  /\ loc \in Locations
  /\ observerCoords' = loc
  /\ pendingShow' = (pendingShow \/ screen = "bestPasses")
  /\ lastOp' = OtherOp("other")
  /\ UNCHANGED <<now, currentBestPassesSource, favorites, screen, passesModalOpen,
                 passCalculation, abortedControllers, controllersCreated, viewMoreDisabled,
                 viewMoreHidden, timers, previousBestPassesLoaded, showPreviousDisabled,
                 sessionStorage>>

\* location.handleCitySearch(city), city not found or network error
\* (location.setError), or handleCitySearch('') from the map screen: the
\* coordinates are cleared and showBestPasses is not called
LocationError ==
  /\ UNCHANGED <<scan, nearby, sky, tracking>>
  /\ UserEvent
  /\ CancellingEvent
  /\ screen \in {"bestPasses", "map"}
  /\ ~passesModalOpen
  /\ observerCoords # NoLoc
  /\ observerCoords' = NoLoc
  /\ lastOp' = OtherOp("other")
  /\ UNCHANGED <<now, currentBestPassesSource, favorites, screen, passesModalOpen,
                 passCalculation, abortedControllers, controllersCreated, viewMoreDisabled,
                 viewMoreHidden, timers, previousBestPassesLoaded, showPreviousDisabled,
                 sessionStorage, pendingShow>>

\* the source filter of the best-passes screen (setupFilter callback)
ChangeSource(source) ==
  /\ UNCHANGED <<scan, nearby, sky, tracking>>
  /\ UserEvent
  /\ CancellingEvent
  /\ screen = "bestPasses"
  /\ source \in Sources
  /\ currentBestPassesSource' = source
  /\ CallShowBestPasses([passCalculation EXCEPT !.allFoundPasses = <<>>], observerCoords,
                        source, [k \in CacheKeys |-> NoEntry])
  /\ UNCHANGED <<now, observerCoords, favorites, screen, passesModalOpen,
                 abortedControllers, controllersCreated, viewMoreDisabled, pendingShow>>

\* the favorites are edited on another screen
ChangeFavorites(favs) ==
  /\ UNCHANGED <<scan, nearby, sky, tracking>>
  /\ UserEvent
  /\ CancellingEvent
  /\ screen = "start"
  /\ favs \in FavoriteLists
  /\ favs # favorites
  /\ favorites' = favs
  /\ lastOp' = OtherOp("other")
  /\ UNCHANGED <<now, observerCoords, currentBestPassesSource, screen, passesModalOpen,
                 passCalculation, abortedControllers, controllersCreated, viewMoreDisabled,
                 viewMoreHidden, timers, previousBestPassesLoaded, showPreviousDisabled,
                 sessionStorage, pendingShow>>

\* prediction.handlePrediction: opens the passes modal of the tracked satellite
HandlePrediction ==
  /\ UNCHANGED <<scan, nearby, sky, tracking>>
  /\ NoHistory
  /\ UserEvent
  /\ screen = "map"
  /\ ~passesModalOpen
  /\ observerCoords # NoLoc
  /\ SessionBudget
  /\ passesModalOpen' = TRUE
  /\ timers' = Append(timers, StartTimer(TrackedSats, "modal"))
  /\ lastOp' = OtherOp("other")
  /\ UNCHANGED <<now, observerCoords, currentBestPassesSource, favorites, screen,
                 passCalculation, abortedControllers, controllersCreated, viewMoreDisabled,
                 viewMoreHidden, previousBestPassesLoaded, showPreviousDisabled,
                 sessionStorage, pendingShow>>

\* closing the passes modal (close button or history.back)
ClosePassesModal ==
  /\ UNCHANGED <<scan, nearby, sky, tracking>>
  /\ NoHistory
  /\ UserEvent
  /\ passesModalOpen
  /\ passesModalOpen' = FALSE
  /\ LET st == stopPassCalculation(passCalculation, abortedControllers)
     IN /\ passCalculation' = st.pc
        /\ abortedControllers' = st.aborted
  /\ lastOp' = OtherOp("other")
  /\ UNCHANGED <<now, observerCoords, currentBestPassesSource, favorites, screen,
                 controllersCreated, viewMoreDisabled, viewMoreHidden, timers,
                 previousBestPassesLoaded, showPreviousDisabled, sessionStorage, pendingShow>>

\* a click on one of the two view-more buttons: calculateNextPassBatch
ClickViewMore(target) ==
  /\ UNCHANGED <<scan, nearby, sky, tracking>>
  /\ NoHistory
  /\ UNCHANGED userEvents
  /\ target \in Targets
  /\ ~viewMoreHidden[target]
  /\ ~viewMoreDisabled[target]
  /\ IF target = "bestPasses" THEN screen = "bestPasses" ELSE passesModalOpen
  /\ LET r == calculateNextPassBatch(passCalculation, viewMoreDisabled, timers)
     IN /\ viewMoreDisabled' = r.disabled
        /\ timers' = r.timers
  /\ lastOp' = OtherOp("other")
  /\ UNCHANGED <<now, observerCoords, currentBestPassesSource, favorites, screen,
                 passesModalOpen, passCalculation, abortedControllers, controllersCreated,
                 viewMoreHidden, previousBestPassesLoaded, showPreviousDisabled,
                 sessionStorage, pendingShow>>

\* the setTimeout(..., 0) callback of showBestPasses and handlePrediction:
\* startPassCalculation(satsToCalculate, renderTarget)
StartPassCalculation(i) ==
  /\ UNCHANGED <<scan, nearby, sky, tracking>>
  /\ UNCHANGED <<userEvents, cancelUpTo, firstCompleted>>
  /\ sessionFound' = <<>>
  /\ CanFire(i)
  /\ timers[i].kind = "start"
  /\ LET st == stopPassCalculation(passCalculation, abortedControllers)
         controller == controllersCreated + 1
         pc == [inProgress |-> TRUE, controller |-> controller, daysCalculated |-> 0,
                firstPassFound |-> FALSE, startDate |-> now,
                satsToCalculate |-> timers[i].sats, renderTarget |-> timers[i].target,
                allFoundPasses |-> <<>>,
                daysPerBatch |-> DaysPerBatch(timers[i].target, currentBestPassesSource)]
         r == calculateNextPassBatch(pc, viewMoreDisabled, RemoveAt(timers, i))
     IN /\ passCalculation' = pc
        /\ abortedControllers' = st.aborted
        /\ controllersCreated' = controller
        /\ viewMoreDisabled' = r.disabled
        /\ timers' = r.timers
        /\ lastOp' = [OtherOp("startPassCalculation") EXCEPT
                        !.ctrl = controller, !.sid = passCalculation.controller,
                        !.aborted = st.aborted]
  /\ UNCHANGED <<now, observerCoords, currentBestPassesSource, favorites, screen,
                 passesModalOpen, viewMoreHidden, previousBestPassesLoaded,
                 showPreviousDisabled, sessionStorage, pendingShow>>

\* a batch that advances the cursor by one day whatever its size
AfterBatch_OneDay(pc, batchSize, passesInBatch) ==
  LET pc1 == [pc EXCEPT !.daysCalculated = @ + 1]
      pc2 == IF passesInBatch # <<>>
               THEN [pc1 EXCEPT !.firstPassFound = TRUE,
                                !.allFoundPasses = SortByStart(@ \o SortByStart(passesInBatch))]
               ELSE pc1
  IN IF pc2.daysCalculated >= passCalculationMaxDays
       THEN [pc2 EXCEPT !.inProgress = FALSE] ELSE pc2

\* the state of passCalculation after a batch that found passesInBatch
AfterBatch(pc, batchSize, passesInBatch) ==
  LET pc1 == [pc EXCEPT !.daysCalculated = @ + batchSize]
      pc2 == IF passesInBatch # <<>>
               THEN [pc1 EXCEPT !.firstPassFound = TRUE,
                                !.allFoundPasses = SortByStart(@ \o SortByStart(passesInBatch))]
               ELSE pc1
  IN IF pc2.daysCalculated >= passCalculationMaxDays
       THEN [pc2 EXCEPT !.inProgress = FALSE] ELSE pc2

\* the setTimeout(..., 50) callback of calculateNextPassBatch
BatchCallback(i) ==
  /\ UNCHANGED <<scan, nearby, sky, tracking>>
  /\ UNCHANGED userEvents
  /\ CanFire(i)
  /\ timers[i].kind = "batch"
  /\ timers' = RemoveAt(timers, i)
  /\ LET pc == passCalculation
         batchSize == IF pc.daysPerBatch # 0 THEN pc.daysPerBatch ELSE passCalculationBatchSize
         op == [OtherOp("batch") EXCEPT !.sid = timers[i].sid, !.ctrl = pc.controller]
     IN IF pc.controller = NoController
          \* passCalculation.controller is null: reading .signal throws
          THEN /\ lastOp' = [op EXCEPT !.threw = TRUE]
               /\ UNCHANGED <<passCalculation, viewMoreDisabled, viewMoreHidden, sessionStorage,
                              sessionFound, firstCompleted>>
        ELSE IF SignalAborted(pc, abortedControllers)
          THEN /\ viewMoreDisabled' = [viewMoreDisabled EXCEPT ![timers[i].btn] = FALSE]
               /\ lastOp' = op
               /\ UNCHANGED <<passCalculation, viewMoreHidden, sessionStorage,
                              sessionFound, firstCompleted>>
        ELSE IF observerCoords = NoLoc /\ pc.satsToCalculate # <<>>
          \* calculateVisiblePasses reads coords[0] of null and throws
          THEN /\ lastOp' = [op EXCEPT !.threw = TRUE]
               /\ UNCHANGED <<passCalculation, viewMoreDisabled, viewMoreHidden, sessionStorage,
                              sessionFound, firstCompleted>>
        ELSE LET scans == ScanDays(pc.satsToCalculate, observerCoords,
                                   pc.startDate + pc.daysCalculated * MinutesPerDay,
                                   0, batchSize)
                 passesInBatch == PassesOfScans(scans, 1)
                 pc1 == AfterBatch(pc, batchSize, passesInBatch)
                 hidden1 == IF pc1.renderTarget = "bestPasses"
                              THEN renderFilteredPasses(pc1, previousBestPassesLoaded,
                                                        viewMoreHidden, now)
                              ELSE viewMoreHidden
                 u == updateViewMoreButton(pc1, observerCoords, currentBestPassesSource,
                                           sessionStorage, hidden1, viewMoreDisabled, now)
             IN /\ passCalculation' = pc1
                /\ viewMoreHidden' = u.hidden
                /\ viewMoreDisabled' = u.disabled
                /\ sessionStorage' = u.storage
                /\ sessionFound' = SortByStart(sessionFound \o passesInBatch)
                /\ firstCompleted' =
                     IF u.wrote # <<>> /\ ~FirstCompletedValid(firstCompleted[u.wrote], now)
                       THEN [firstCompleted EXCEPT ![u.wrote] =
                               [present |-> TRUE, timestamp |-> now,
                                passes |-> JsonRoundTrip(pc1.allFoundPasses)]]
                       ELSE firstCompleted
                /\ lastOp' = [op EXCEPT !.ran = TRUE,
                                        !.firstDay = pc.daysCalculated,
                                        !.batchSize = batchSize,
                                        !.scanned = [k \in 1..Len(scans) |->
                                                       <<scans[k].sat,
                                                         DayOf(scans[k].date) - DayOf(pc.startDate)>>],
                                        !.found = (passesInBatch # <<>>),
                                        !.wrote = u.wrote]
  /\ UNCHANGED <<now, observerCoords, currentBestPassesSource, favorites, screen,
                 passesModalOpen, abortedControllers, controllersCreated,
                 previousBestPassesLoaded, showPreviousDisabled, pendingShow, cancelUpTo>>

\* a click on the show-previous button: showPreviousBestPasses up to its timer
ClickShowPrevious ==
  /\ UNCHANGED <<scan, nearby, sky, tracking>>
  /\ NoHistory
  /\ UserEvent
  /\ screen = "bestPasses"
  /\ ~showPreviousDisabled
  /\ ~previousBestPassesLoaded
  /\ showPreviousDisabled' = TRUE
  /\ timers' = Append(timers, PreviousTimer)
  /\ lastOp' = OtherOp("other")
  /\ UNCHANGED <<now, observerCoords, currentBestPassesSource, favorites, screen,
                 passesModalOpen, passCalculation, abortedControllers, controllersCreated,
                 viewMoreDisabled, viewMoreHidden, previousBestPassesLoaded,
                 sessionStorage, pendingShow>>

\* the setTimeout(..., 50) callback of showPreviousBestPasses
PreviousCallback(i) ==
  /\ UNCHANGED <<scan, nearby, sky, tracking>>
  /\ NoHistory
  /\ UNCHANGED userEvents
  /\ CanFire(i)
  /\ timers[i].kind = "previous"
  /\ timers' = RemoveAt(timers, i)
  /\ LET sats == SatsOfSource(currentBestPassesSource, favorites)
         daysToCalculate == IF currentBestPassesSource = "all" THEN 1 ELSE predictionPastDays
     IN IF observerCoords = NoLoc /\ sats # <<>>
          \* calculateVisiblePasses reads coords[0] of null and throws
          THEN /\ lastOp' = [OtherOp("previous") EXCEPT !.threw = TRUE]
               /\ UNCHANGED <<passCalculation, viewMoreHidden, previousBestPassesLoaded>>
          ELSE LET previousPasses == PreviousPasses(sats, 1, observerCoords, daysToCalculate, now)
                   pc1 == [passCalculation EXCEPT
                             !.allFoundPasses = SortByStart(previousPasses \o @)]
               IN /\ passCalculation' = pc1
                  /\ previousBestPassesLoaded' = TRUE
                  /\ viewMoreHidden' = renderFilteredPasses(pc1, TRUE, viewMoreHidden, now)
                  /\ lastOp' = [OtherOp("previous") EXCEPT !.ran = TRUE,
                                                           !.ctrl = passCalculation.controller]
  /\ UNCHANGED <<now, observerCoords, currentBestPassesSource, favorites, screen,
                 passesModalOpen, abortedControllers, controllersCreated, viewMoreDisabled,
                 showPreviousDisabled, sessionStorage, pendingShow>>

\* minutes pass: by then every pending callback (at most 50 ms) has run and
\* every animation or fetch has ended
Tick ==
  /\ UNCHANGED <<scan, nearby, sky, tracking>>
  /\ NoHistory
  /\ UNCHANGED userEvents
  /\ timers = <<>>
  /\ ~pendingShow
  /\ now + ClockStep <= MaxTime
  /\ now' = now + ClockStep
  /\ lastOp' = OtherOp("other")
  /\ UNCHANGED <<observerCoords, currentBestPassesSource, favorites, screen,
                 passesModalOpen, passCalculation, abortedControllers, controllersCreated,
                 viewMoreDisabled, viewMoreHidden, timers, previousBestPassesLoaded,
                 showPreviousDisabled, sessionStorage, pendingShow>>

Next ==
  \/ GoToBestPasses
  \/ \E target \in {"start", "map"} : LeaveScreen(target)
  \/ PendingShowBestPasses
  \/ ClearLocation
  \/ \E loc \in Locations : SetLocation(loc)
  \/ LocationError
  \/ \E source \in Sources : ChangeSource(source)
  \/ \E favs \in FavoriteLists : ChangeFavorites(favs)
  \/ HandlePrediction
  \/ ClosePassesModal
  \/ \E target \in Targets : ClickViewMore(target)
  \/ \E i \in 1..Len(timers) : StartPassCalculation(i)
  \/ \E i \in 1..Len(timers) : BatchCallback(i)
  \/ ClickShowPrevious
  \/ \E i \in 1..Len(timers) : PreviousCallback(i)
  \/ Tick

Spec == Init /\ [][Next]_vars

----------------------------------------------------------------------------
(* The application with a session storage that other code can write *)

\* the entry of the current source and location is overwritten with a string
\* showBestPasses cannot use
CorruptEntry(key, damage) ==
  /\ UNCHANGED <<scan, nearby, sky, tracking>>
  /\ UserEvent
  /\ NoHistory
  /\ key = <<currentBestPassesSource, observerCoords>>
  /\ ~Damaged(sessionStorage[key])
  /\ sessionStorage' = [sessionStorage EXCEPT ![key] =
                          [present |-> TRUE,
                           timestamp |-> IF @.present THEN @.timestamp ELSE now,
                           passes |-> <<>>, damage |-> damage]]
  /\ lastOp' = OtherOp("corrupt")
  /\ UNCHANGED <<now, observerCoords, currentBestPassesSource, favorites, screen,
                 passesModalOpen, passCalculation, abortedControllers, controllersCreated,
                 viewMoreDisabled, viewMoreHidden, timers, previousBestPassesLoaded,
                 showPreviousDisabled, pendingShow>>

\* the best-passes screen and its searches, without the passes modal and the
\* previous passes
StorageNext ==
  \/ GoToBestPasses
  \/ \E target \in {"start", "map"} : LeaveScreen(target)
  \/ PendingShowBestPasses
  \/ ClearLocation
  \/ \E loc \in Locations : SetLocation(loc)
  \/ \E source \in Sources : ChangeSource(source)
  \/ \E favs \in FavoriteLists : ChangeFavorites(favs)
  \/ \E i \in 1..Len(timers) : StartPassCalculation(i)
  \/ \E i \in 1..Len(timers) : BatchCallback(i)
  \/ Tick
  \/ \E key \in CacheKeys, damage \in Damages : CorruptEntry(key, damage)

StorageSpec == Init /\ [][StorageNext]_vars

----------------------------------------------------------------------------
(* calculateVisiblePasses on arbitrary streams of samples: one step is one
   iteration of its loop, the sample being what the collaborators return *)

\* the elevations a sample can have: below, at and above the threshold
SampleElevations == {5, ElevationThreshold, 30, 60}

\* baseDate of the stepped scan
ScanBase == 100

\* const time = new Date(baseDate.getTime() + timeOffset)
ScanTime(sc) == IF sc.direction = "future" THEN ScanBase + sc.i ELSE ScanBase - sc.i

DetInit ==
  /\ AppInit
  /\ nearby = NearbyOff
  /\ sky = SkyIdle
  /\ tracking = TrackingOff
  /\ \E direction \in {"future", "past"} :
       scan = [NoScan EXCEPT !.direction = direction, !.d = DetectorInit(direction)]

\* an iteration whose sample has elevation e and visibility v
FeedSample(e, v) ==
  /\ scan.direction # "none"
  /\ scan.i < MaxSamples
  /\ ~scan.d.stopped
  /\ LET s == [time |-> ScanTime(scan), elevation |-> e, isVisible |-> v,
               az |-> 10 * (scan.i + 1)]
     IN scan' = [scan EXCEPT !.i = @ + 1, !.fed = Append(@, s),
                             !.d = DetectorStep(scan.d, s, scan.direction)]
  /\ UNCHANGED <<appVars, nearby, sky, tracking>>

\* an iteration in which satellite.propagate or a later call throws
FeedThrows ==
  /\ scan.direction # "none"
  /\ scan.i < MaxSamples
  /\ ~scan.d.stopped
  /\ scan' = [scan EXCEPT !.i = @ + 1, !.threw = @ + 1, !.d = DetectorCatch(scan.d)]
  /\ UNCHANGED <<appVars, nearby, sky, tracking>>

DetNext ==
  \/ \E e \in SampleElevations, v \in BOOLEAN : FeedSample(e, v)
  \/ FeedThrows

DetSpec == DetInit /\ [][DetNext]_vars

----------------------------------------------------------------------------
(* calculateVisiblePasses under a sky in which a visible pass comes back
   every scan.period samples: long scans *)

\* the periods of the sky, in samples
SkyPeriods == {2, 3}

\* the sample of iteration i: above the threshold and visible, but for the
\* last sample of each period, which is below
PeriodicSample(sc) ==
  [time |-> ScanTime(sc),
   elevation |-> IF sc.i % sc.period = sc.period - 1 THEN 5 ELSE 30,
   isVisible |-> TRUE, az |-> 10 * ((sc.i % sc.period) + 1)]

PeriodicInit ==
  /\ AppInit
  /\ nearby = NearbyOff
  /\ sky = SkyIdle
  /\ tracking = TrackingOff
  /\ \E direction \in {"future", "past"}, period \in SkyPeriods :
       scan = [NoScan EXCEPT !.direction = direction, !.d = DetectorInit(direction),
                             !.period = period]

\* one iteration of the loop; after break the loop has ended
FeedPeriodic ==
  /\ scan.i < MaxPeriodicSamples
  /\ ~scan.d.stopped
  /\ scan' = [scan EXCEPT !.i = @ + 1, !.fed = Append(@, PeriodicSample(scan)),
                          !.d = DetectorStep(scan.d, PeriodicSample(scan), scan.direction)]
  /\ UNCHANGED <<appVars, nearby, sky, tracking>>

PeriodicNext == FeedPeriodic

PeriodicSpec == PeriodicInit /\ [][PeriodicNext]_vars

----------------------------------------------------------------------------
(* nearbyMode: the proximity scanner *)

\* const radiusKm = 1200
radiusKm == 1200

\* const offsets = [0, 360, -360, 720, -720]
Offsets == <<0, 360, -360, 720, -720>>

\* a length in the unit of the model's coordinates, 100 m
Hm(km) == 10 * km

\* the observer, origin of the plane tangent to the ground at the location;
\* lat and lon of a sample are its coordinates on that plane
ObserverPoint == [lat |-> 0, lon |-> 0]

RECURSIVE SqrtBetween(_, _, _)
SqrtBetween(n, lo, hi) ==
  IF hi - lo <= 1 THEN lo
  ELSE LET mid == (lo + hi) \div 2
       IN IF mid * mid <= n THEN SqrtBetween(n, mid, hi) ELSE SqrtBetween(n, lo, mid)

\* Math.sqrt, to the unit
ISqrt(n) == SqrtBetween(n, 0, 46341)

\* the quotient n / d of two numbers, d # 0: truncated as new Date(ms) does
\* for a quotient that is not negative, and rounded to the unit
FloorDiv(n, d) == IF d > 0 THEN n \div d ELSE (0 - n) \div (0 - d)
RoundDiv(n, d) == FloorDiv(2 * n + d, 2 * d)

\* calculateDistance: the ground distance of two points, on the tangent plane
calculateDistance(lat1, lon1, lat2, lon2) ==
  ISqrt((lat2 - lat1) * (lat2 - lat1) + (lon2 - lon1) * (lon2 - lon1))

\* _isObserverInDarkness(time) && isSatIlluminated(position, time)
VisibleAt(sk, time) == sk.visibleFrom <= time /\ time < sk.visibleUntil

\* t = (radius - d1) / (d2 - d1), then the linear interpolation of every
\* coordinate of p1 and p2 at t
_getIntersectionPoint(p1, p2, center, radius) ==
  LET d1 == calculateDistance(p1.lat, p1.lon, center.lat, center.lon)
      d2 == calculateDistance(p2.lat, p2.lon, center.lat, center.lon)
      num == radius - d1
      den == d2 - d1
  IN [lat |-> p1.lat + RoundDiv(num * (p2.lat - p1.lat), den),
      lon |-> p1.lon + RoundDiv(num * (p2.lon - p1.lon), den),
      time |-> p1.time + FloorDiv(num * (p2.time - p1.time), den)]

\* drawSegment: a segment of two points or more becomes one polyline per offset
drawSegment(layers, segment) ==
  IF Len(segment) < 2 THEN layers
  ELSE layers \o [k \in 1..Len(Offsets) |->
                    [points |-> segment, isVisible |-> segment[1].isVisible,
                     offset |-> Offsets[k]]]

\* a point with its isVisible flag
Flagged(sk, p) ==
  [lat |-> p.lat, lon |-> p.lon, time |-> p.time, isVisible |-> VisibleAt(sk, p.time)]

\* one iteration of the clipping loop on masterPath[i], masterPath[i+1];
\* c is [currentSegment, layers, crossings]
ClipStep(c, sk, i) ==
  LET radius == Hm(radiusKm)
      p1 == Flagged(sk, sk.track[i])
      p2 == sk.track[i + 1]
      d1 == calculateDistance(p1.lat, p1.lon, ObserverPoint.lat, ObserverPoint.lon)
      d2 == calculateDistance(p2.lat, p2.lon, ObserverPoint.lat, ObserverPoint.lon)
      p1_inside == d1 <= radius
      p2_inside == d2 <= radius
      cs == c.currentSegment
      sameKind == Len(cs) = 0 \/ cs[1].isVisible = p1.isVisible
      seg1 == IF ~p1_inside THEN cs
              ELSE IF sameKind THEN Append(cs, p1)
              ELSE <<cs[Len(cs)], p1>>
      layers1 == IF p1_inside /\ ~sameKind THEN drawSegment(c.layers, cs) ELSE c.layers
      crossing == p1_inside # p2_inside
      intersection == Flagged(sk, _getIntersectionPoint(p1, p2, ObserverPoint, radius))
      flush == Len(seg1) > 0 /\ seg1[1].isVisible # intersection.isVisible
      layers2 == IF flush THEN drawSegment(layers1, seg1) ELSE layers1
      seg2 == Append(IF flush THEN <<>> ELSE seg1, intersection)
  IN IF crossing
       THEN [currentSegment |-> <<>>,
             layers |-> drawSegment(layers2, seg2),
             crossings |-> Append(c.crossings,
                                  [i |-> i, d1 |-> d1, d2 |-> d2, point |-> intersection])]
       ELSE [currentSegment |-> seg1, layers |-> layers1, crossings |-> c.crossings]

RECURSIVE ClipLoop(_, _, _)
ClipLoop(c, sk, i) ==
  IF i > Len(sk.track) - 1 THEN c ELSE ClipLoop(ClipStep(c, sk, i), sk, i + 1)

\* the clipping of masterPath to the circle: the polylines drawn and the
\* calls of _getIntersectionPoint made
ClipOrbit(sk) ==
  IF Len(sk.track) < 2 THEN [layers |-> <<>>, crossings |-> <<>>]
  ELSE LET c == ClipLoop([currentSegment |-> <<>>, layers |-> <<>>, crossings |-> <<>>],
                         sk, 1)
       IN [layers |-> drawSegment(c.layers, c.currentSegment), crossings |-> c.crossings]

\* gatherSatellites: the catalog is collected once per activation
gatherSatellites(allSats) == IF Len(allSats) > 0 THEN allSats ELSE Catalog

\* a scanner that evicts at the radius itself
currentlyNearbyIds_Exclusive(allSats, outcome) ==
  { allSats[k] : k \in { j \in 1..Len(allSats) :
                           /\ outcome[allSats[j]].ok
                           /\ outcome[allSats[j]].distance < radiusKm } }

\* the ids the forEach over nearby.allSats collects: propagation did not throw
\* and distance <= radiusKm
currentlyNearbyIds(allSats, outcome) ==
  { allSats[k] : k \in { j \in 1..Len(allSats) :
                           /\ outcome[allSats[j]].ok
                           /\ outcome[allSats[j]].distance <= radiusKm } }

SatIds(sats) == { sats[k].id : k \in 1..Len(sats) }

\* the rotation given to the marker: let bearing = existingSat.lastBearing || 0,
\* replaced by calculateBearing when the look-ahead propagates and the two
\* longitudes differ by less than 180 degrees
Bearing(lastBearing, ahead) ==
  IF ahead.ok /\ ~ahead.wraps THEN ahead.bearing ELSE lastBearing

\* a look-ahead whose failure forgets the bearing
LastBearing_ForgetsOnFailure(lastBearing, ahead) ==
  IF ahead.ok THEN Bearing(lastBearing, ahead) ELSE 0

\* existingSat.lastBearing = bearing, the last statement of the try block
LastBearing(lastBearing, ahead) ==
  IF ahead.ok THEN Bearing(lastBearing, ahead) ELSE lastBearing

\* a stop() that leaves the interval running
nearbyStop_KeepsInterval(nb) ==
  [nb EXCEPT !.active = FALSE, !.satellites = <<>>, !.allSats = <<>>,
             !.selectedSatForOrbit = "none", !.crossings = <<>>,
             !.before = {}, !.lastOp = "stop", !.updateInterval = 0]

\* nearbyMode.stop(), up to clearNearbyLayers and the two resets that follow it
nearbyStop(nb) ==
  [nb EXCEPT !.active = FALSE, !.satellites = <<>>, !.allSats = <<>>,
             !.selectedSatForOrbit = "none", !.crossings = <<>>,
             !.before = {}, !.lastOp = "stop",
             !.running = IF nb.updateInterval # 0 THEN @ \ {nb.updateInterval} ELSE @,
             !.updateInterval = 0]

\* handleTleLoad(true): the satellites parsed from the TLE input replace the
\* tracked ones; an empty input changes nothing
handleTleLoad(tr) ==
  IF tr.tleInput = <<>> THEN tr
  ELSE [tr EXCEPT !.trackedSatellites =
                     [k \in 1..Len(tr.tleInput) |->
                        [id |-> tr.tleInput[k], markers |-> FALSE,
                         lastBearing |-> 0, rotation |-> 0]],
                  !.header = TRUE,
                  !.nextVisiblePass = NoPass,
                  !.redrawn = <<>>]

\* satellites.clearAll(): this is App.satellites, which has no nearbyMode, so
\* this.nearbyMode.stop() throws a TypeError before anything is cleared
clearAll(tr) == [tr EXCEPT !.threw = TRUE]

\* satellites.updatePositions()
updatePositions(tr, sk, isNearbyModeActive) ==
  IF isNearbyModeActive THEN tr
  ELSE LET Propagates(sat) == sk.outcome[sat.id].ok
           moved == [k \in 1..Len(tr.trackedSatellites) |->
                       LET sat == tr.trackedSatellites[k]
                           ahead == sk.outcome[sat.id].ahead
                       IN IF Propagates(sat)
                            THEN [sat EXCEPT
                                    !.rotation = IF sat.markers
                                                   THEN Bearing(sat.lastBearing, ahead) ELSE @,
                                    !.lastBearing = LastBearing(sat.lastBearing, ahead)]
                            ELSE [sat EXCEPT !.markers = FALSE]]
           remaining == SelectSeq(moved, Propagates)
       IN IF Len(remaining) = Len(moved) THEN [tr EXCEPT !.trackedSatellites = moved]
          ELSE IF remaining # <<>>
            THEN [tr EXCEPT !.trackedSatellites = remaining, !.redrawn = <<>>]
          ELSE clearAll([tr EXCEPT !.trackedSatellites = <<>>, !.redrawn = <<>>])

\* prediction.findNextVisiblePass(): the first pass of a two-day future scan
\* of trackedSatellites[0], whose startDate is new Date()
findNextVisiblePass(tr, coords, t) ==
  IF tr.trackedSatellites = <<>> \/ coords = NoLoc
    THEN [tr EXCEPT !.nextVisiblePass = NoPass, !.computedAt = t]
    ELSE LET passes == calculateVisiblePasses(tr.trackedSatellites[1].id, coords, 2,
                                              "future", t)
         IN [tr EXCEPT !.nextVisiblePass =
               IF passes # <<>> THEN [start |-> passes[1].start, end |-> passes[1].end]
               ELSE NoPass,
                       !.computedAt = t]

\* satellites.handleTracking(): with the proximity mode on, this.nearbyMode.stop()
\* throws a TypeError; otherwise the satellites whose initial position
\* propagates get their markers, updatePositions runs, the next visible pass
\* is searched and the real-time intervals are started
handleTracking(tr, sk, isNearbyModeActive, coords, t) ==
  IF isNearbyModeActive THEN [tr EXCEPT !.threw = TRUE]
  ELSE LET marked == [tr EXCEPT !.trackedSatellites =
                        [k \in 1..Len(tr.trackedSatellites) |->
                           [tr.trackedSatellites[k] EXCEPT
                              !.markers = sk.outcome[tr.trackedSatellites[k].id].ok]]]
           positioned == updatePositions(marked, sk, FALSE)
       IN IF positioned.threw THEN positioned
          ELSE [findNextVisiblePass(positioned, coords, t) EXCEPT !.realTime = TRUE]

\* a 1-second tick that runs while time-traveling
realTimeTick_IgnoresTimeTravel(tr, sk, isNearbyModeActive, coords, t) ==
  LET positioned == updatePositions([tr EXCEPT !.currentTime = t], sk, isNearbyModeActive)
  IN IF positioned.threw THEN positioned
     ELSE IF /\ Len(positioned.trackedSatellites) = 1
             /\ positioned.nextVisiblePass # NoPass
             /\ t > positioned.nextVisiblePass.end + 2
       THEN findNextVisiblePass(positioned, coords, t)
     ELSE positioned

\* the callback of realTimeInterval, every second
realTimeTick(tr, sk, isNearbyModeActive, coords, t) ==
  IF tr.isTimeTraveling THEN tr
  ELSE LET positioned == updatePositions([tr EXCEPT !.currentTime = t], sk,
                                         isNearbyModeActive)
       IN IF positioned.threw THEN positioned
          ELSE IF /\ Len(positioned.trackedSatellites) = 1
                  /\ positioned.nextVisiblePass # NoPass
                  /\ t > positioned.nextVisiblePass.end + 2
            THEN findNextVisiblePass(positioned, coords, t)
          ELSE positioned

\* the history of the 10-second ticks with one more redraw
Redraw(redrawn, what) ==
  IF Len(redrawn) < Cardinality(Satellites) THEN Append(redrawn, what)
  ELSE Append(Tail(redrawn), what)

\* the callback of staggeredUpdateInterval, every 10 seconds;
\* isAllSatellitesMode is never set, so its branch is never taken;
\* drawSingleOrbit returns at once when trackedSatellites[satIndex] is undefined
staggeredTick(tr) ==
  IF tr.isTimeTraveling THEN tr
  ELSE LET numSats == Len(tr.trackedSatellites)
           satIndex == tr.nextSatToUpdateIndex
       IN IF numSats > 1
            THEN [tr EXCEPT !.redrawn = Redraw(@, IF satIndex < numSats
                                                    THEN tr.trackedSatellites[satIndex + 1].id
                                                    ELSE "none"),
                            !.nextSatToUpdateIndex = (satIndex + 1) % numSats]
          ELSE IF numSats = 1
            THEN [tr EXCEPT !.redrawn = Redraw(@, tr.trackedSatellites[1].id)]
          ELSE tr

\* nearbyMode.update()
nearbyUpdate(nb, sk, coords) ==
  IF ~nb.active \/ coords = NoLoc THEN [nb EXCEPT !.lastOp = "returned"]
  ELSE LET ids == currentlyNearbyIds(nb.allSats, sk.outcome)
           IsNew(id) == id \in ids /\ id \notin SatIds(nb.satellites)
           added == SelectSeq(nb.allSats, IsNew)
           moved == [k \in 1..Len(nb.satellites) |->
                       LET sat == nb.satellites[k]
                           ahead == sk.outcome[sat.id].ahead
                       IN IF sat.id \in ids
                            THEN [sat EXCEPT
                                    !.rotation = Bearing(sat.lastBearing, ahead),
                                    !.lastBearing = LastBearing(sat.lastBearing, ahead)]
                            ELSE sat]
           pushed == moved \o [k \in 1..Len(added) |->
                                 [id |-> added[k], orbitLayers |-> <<>>,
                                  lastBearing |-> 0, rotation |-> 0]]
           StillNear(sat) == sat.id \in ids
           kept == SelectSeq(pushed, StillNear)
           selected == nb.selectedSatForOrbit \in SatIds(kept)
           clipped == ClipOrbit(sk)
       IN [nb EXCEPT
             !.satellites = [k \in 1..Len(kept) |->
                               [kept[k] EXCEPT !.orbitLayers =
                                  IF kept[k].id = nb.selectedSatForOrbit
                                    THEN clipped.layers ELSE <<>>]],
             !.crossings = IF selected THEN clipped.crossings ELSE <<>>,
             !.before = SatIds(nb.satellites),
             !.lastOp = "update"]

\* the samples an orbit can pass through: 1300 km and 1100 km from the
\* observer on a line through the observer, and 1203 km and 1198 km on a
\* line that passes 1195 km from the observer
TrackPoints ==
  { [lat |-> Hm(1300), lon |-> 0], [lat |-> Hm(1100), lon |-> 0],
    [lat |-> Hm(0 - 85), lon |-> Hm(1200)], [lat |-> Hm(85), lon |-> Hm(1195)] }

\* two samples one step of the orbit apart: step = period / 240, about 23 s
\* of flight, is at most 200 km of ground track
OneStepApart(p, q) == calculateDistance(p.lat, p.lon, q.lat, q.lon) <= Hm(200)

\* the sampled orbits: masterPath, one sample per step
Tracks ==
  { [k \in 1..Len(f) |-> [lat |-> f[k].lat, lon |-> f[k].lon, time |-> 100 * (k - 1)]] :
      f \in { g \in UNION { [1..n -> TrackPoints] : n \in 0..MaxTrack } :
                \A k \in 1..(Len(g) - 1) : OneStepApart(g[k], g[k + 1]) } }

\* the intervals of time in which the satellite is lit over a dark observer
VisibleWindows == { <<0, 0>>, <<0, 1000>>, <<0, 150>> }

\* what the propagation of one catalog object can give
Outcomes ==
  {NotPropagated} \cup { [ok |-> TRUE, distance |-> d, ahead |-> North] :
                            d \in {1100, radiusKm, 1300} }

NearbyInit ==
  /\ AppInit
  /\ scan = NoScan
  /\ nearby = NearbyOff
  /\ tracking = TrackingOff
  /\ \E track \in Tracks, w \in VisibleWindows :
       sky = [SkyIdle EXCEPT !.track = track, !.visibleFrom = w[1], !.visibleUntil = w[2]]

\* nearbyMode.toggle() while the mode is off: start(), which ends with update()
NearbyStart ==
  /\ ~nearby.active
  /\ observerCoords # NoLoc
  /\ LET updated == nearbyUpdate([nearby EXCEPT
                                    !.active = TRUE,
                                    !.allSats = gatherSatellites(nearby.allSats)],
                                 sky, observerCoords)
         handle == CHOOSE h \in 1..(Cardinality(nearby.running) + 1) :
                     h \notin nearby.running
     IN nearby' = [updated EXCEPT !.updateInterval = handle,
                                  !.running = @ \cup {handle}]
  /\ tracking' = [tracking EXCEPT !.trackedSatellites = <<>>, !.threw = FALSE]
  /\ UNCHANGED <<appVars, scan, sky>>

\* nearbyMode.toggle() while the mode is on: stop()
NearbyStop ==
  /\ nearby.active
  /\ nearby' = nearbyStop(nearby)
  /\ tracking' = handleTracking(handleTleLoad([tracking EXCEPT !.threw = FALSE]),
                                sky, FALSE, observerCoords, now)
  /\ UNCHANGED <<appVars, scan, sky>>

\* the interval set by start() fires
NearbyUpdate ==
  /\ nearby.running # {}
  /\ nearby' = nearbyUpdate(nearby, sky, observerCoords)
  /\ UNCHANGED <<appVars, scan, sky, tracking>>

\* drawOrbitForNearbySat: a click on the marker of an active satellite
DrawOrbitForNearbySat(k) ==
  /\ nearby.active
  /\ LET id == nearby.satellites[k].id
     IN nearby' = [nearby EXCEPT
                     !.selectedSatForOrbit = IF @ = id THEN "none" ELSE id,
                     !.before = {}, !.lastOp = "select"]
  /\ UNCHANGED <<appVars, scan, sky, tracking>>

\* a click on the map outside markers and controls
MapClick ==
  /\ nearby.active
  /\ nearby.selectedSatForOrbit # "none"
  /\ nearby' = [nearby EXCEPT !.selectedSatForOrbit = "none", !.before = {},
                              !.lastOp = "mapclick"]
  /\ UNCHANGED <<appVars, scan, sky, tracking>>

\* the satellites move: the next propagation gives other results
SkyMoves(outcome) ==
  /\ outcome # sky.outcome
  /\ sky' = [sky EXCEPT !.outcome = outcome]
  /\ nearby' = [nearby EXCEPT !.before = {}, !.lastOp = "moved"]
  /\ UNCHANGED <<appVars, scan, tracking>>

NearbyNext ==
  \/ NearbyStart
  \/ NearbyStop
  \/ NearbyUpdate
  \/ \E k \in 1..Len(nearby.satellites) : DrawOrbitForNearbySat(k)
  \/ MapClick
  \/ \E outcome \in [SatIds([k \in 1..Len(Catalog) |-> [id |-> Catalog[k]]]) -> Outcomes] :
       SkyMoves(outcome)

NearbySpec == NearbyInit /\ [][NearbyNext]_vars

----------------------------------------------------------------------------
(* the clipping of the selected orbit, on sampled orbits in which the
   satellite moves at every step and can stay inside the circle for
   several samples *)

\* a sample 1000 km from the observer, 100 km from the one at 1100 km
InnerPoint == [lat |-> Hm(1000), lon |-> 0]

\* masterPath, one sample per step, consecutive samples at different places
ClipTracks ==
  { [k \in 1..Len(f) |-> [lat |-> f[k].lat, lon |-> f[k].lon, time |-> 100 * (k - 1)]] :
      f \in { g \in UNION { [1..n -> TrackPoints \cup {InnerPoint}] : n \in 2..MaxTrack } :
                \A k \in 1..(Len(g) - 1) :
                  g[k] # g[k + 1] /\ OneStepApart(g[k], g[k + 1]) } }

\* the first object of the catalog is within the radius, the second one does
\* not propagate
ClipInit ==
  /\ AppInit
  /\ scan = NoScan
  /\ nearby = NearbyOff
  /\ tracking = TrackingOff
  /\ \E track \in ClipTracks, w \in VisibleWindows :
       sky = [SkyIdle EXCEPT
                !.outcome[Catalog[1]] = [ok |-> TRUE, distance |-> 1100, ahead |-> North],
                !.track = track, !.visibleFrom = w[1], !.visibleUntil = w[2]]

ClipNext ==
  \/ NearbyStart
  \/ NearbyStop
  \/ NearbyUpdate
  \/ \E k \in 1..Len(nearby.satellites) : DrawOrbitForNearbySat(k)
  \/ MapClick

ClipSpec == ClipInit /\ [][ClipNext]_vars

----------------------------------------------------------------------------
(* the 1-second ticks of the proximity mode and of live tracking, under
   propagations that can fail *)

\* the results of calculateBearing, degrees
Bearings == {45, 270}

\* what the propagation 1 second ahead can give: it throws, it lands 180
\* degrees of longitude or more away, or it gives a bearing
Aheads ==
  {AheadThrows, [ok |-> TRUE, wraps |-> TRUE, bearing |-> 0]}
    \cup { [ok |-> TRUE, wraps |-> FALSE, bearing |-> b] : b \in Bearings }

\* what the propagation of one object can give in a tick
TickOutcomes ==
  {NotPropagated}
    \cup { [ok |-> TRUE, distance |-> d, ahead |-> a] : d \in {1100, 1300}, a \in Aheads }

\* the selections of satellites that are loaded into the TLE input
TleInputs == { <<"n1">>, <<"n1", "n2">> }

TickInit ==
  /\ AppInit
  /\ scan = NoScan
  /\ nearby = NearbyOff
  /\ sky = SkyIdle
  /\ tracking = TrackingOff

\* mySatellites.trackMultipleSelected() with the map screen shown
TrackMultipleSelected(tles) ==
  /\ tracking' = [handleTracking(handleTleLoad([tracking EXCEPT !.tleInput = tles,
                                                                !.threw = FALSE]),
                                 sky, nearby.active, observerCoords, now)
                    EXCEPT !.lastOp = "load"]
  /\ UNCHANGED <<appVars, scan, nearby, sky>>

\* openTleModalAction: the TLE input is emptied
OpenTleModal ==
  /\ tracking' = [tracking EXCEPT !.tleInput = <<>>, !.threw = FALSE, !.lastOp = "modal"]
  /\ UNCHANGED <<appVars, scan, nearby, sky>>

\* the interval set by startRealTimeUpdates() fires
RealTimeTick ==
  /\ tracking.realTime
  /\ tracking' = [realTimeTick([tracking EXCEPT !.threw = FALSE], sky, nearby.active,
                                 observerCoords, now)
                    EXCEPT !.lastOp = "tick"]
  /\ UNCHANGED <<appVars, scan, nearby, sky>>

TickNext ==
  \/ NearbyStart
  \/ NearbyStop
  \/ NearbyUpdate
  \/ \E tles \in TleInputs : TrackMultipleSelected(tles)
  \/ OpenTleModal
  \/ RealTimeTick
  \/ \E outcome \in [SatIds([k \in 1..Len(Catalog) |-> [id |-> Catalog[k]]]) -> TickOutcomes] :
       SkyMoves(outcome)

TickSpec == TickInit /\ [][TickNext]_vars

----------------------------------------------------------------------------
(* live tracking in real time and in simulated time: the 1-second tick, the
   10-second tick, the next visible pass and time travel *)

\* the selections of satellites that are tracked
TrackedInputs == { <<"s2">>, <<"s1", "s2">>, <<"s1", "s2", "s3">> }

\* a satellite that propagates, far from the observer
Flying == [ok |-> TRUE, distance |-> 1300, ahead |-> North]

\* App.config.timeSteps[timeStepIndex].value, minutes
TimeStep == 60

RealTimeInit ==
  /\ AppInit
  /\ scan = NoScan
  /\ nearby = NearbyOff
  /\ sky = [SkyIdle EXCEPT !.outcome = [id \in Satellites |-> Flying]]
  /\ tracking = TrackingOff

\* the interval staggeredUpdateInterval fires
StaggeredTick ==
  /\ tracking.realTime
  /\ tracking' = [staggeredTick([tracking EXCEPT !.threw = FALSE])
                    EXCEPT !.lastOp = "staggered"]
  /\ UNCHANGED <<appVars, scan, nearby, sky>>

\* updateMapForCurrentTime(), as far as the tracked satellites and the
\* proximity mode go
updateMapForCurrentTime(tr, sk, isNearbyModeActive) ==
  IF isNearbyModeActive THEN tr ELSE updatePositions(tr, sk, FALSE)

\* time.adjustTime(direction): one step of simulated time
AdjustTime(direction) ==
  /\ tracking.currentTime + TimeStep * direction \in (now - TimeStep)..(now + TimeStep)
  /\ tracking' = [updateMapForCurrentTime(
                    [tracking EXCEPT !.isTimeTraveling = TRUE,
                                     !.realTime = IF tracking.isTimeTraveling THEN @ ELSE FALSE,
                                     !.currentTime = @ + TimeStep * direction,
                                     !.threw = FALSE],
                    sky, nearby.active)
                    EXCEPT !.lastOp = "adjust"]
  /\ nearby' = IF nearby.active THEN nearbyUpdate(nearby, sky, observerCoords) ELSE nearby
  /\ UNCHANGED <<appVars, scan, sky>>

\* the reset-time button, enabled while time-traveling: time.stopTimeTravel()
StopTimeTravel ==
  /\ tracking.isTimeTraveling
  /\ LET updated == updateMapForCurrentTime(
                      [tracking EXCEPT !.isTimeTraveling = FALSE, !.currentTime = now,
                                       !.threw = FALSE],
                      sky, nearby.active)
     IN tracking' = [(IF updated.threw THEN updated ELSE [updated EXCEPT !.realTime = TRUE])
                       EXCEPT !.lastOp = "reset"]
  /\ nearby' = IF nearby.active THEN nearbyUpdate(nearby, sky, observerCoords) ELSE nearby
  /\ UNCHANGED <<appVars, scan, sky>>

RealTimeNext ==
  \/ \E tles \in TrackedInputs : TrackMultipleSelected(tles)
  \/ RealTimeTick
  \/ StaggeredTick
  \/ \E direction \in {-1, 1} : AdjustTime(direction)
  \/ StopTimeTravel
  \/ \E outcome \in [Satellites -> {NotPropagated, Flying}] : SkyMoves(outcome)
  \/ Tick

RealTimeSpec == RealTimeInit /\ [][RealTimeNext]_vars

----------------------------------------------------------------------------
(* the identity of an object and the three sets that are deduplicated by
   it: the catalog of the proximity scanner, the satellites of the 'all'
   source and the active set of the scanner *)

\* names of satellites; a name is any first line that is not a line 1
Names == {"ISS", "HST", "2 COOL"}

\* second lines of element sets
Line2s == {"2 25544", "2 20580"}

\* line.trim().startsWith('2 ')
StartsWithTwo(line) == line \in Line2s \cup {"2 COOL"}

\* a TLE as the program stores it: `${name}\n${line1}\n${line2}`
TleLines(tle) == <<tle.name, tle.line1, tle.line2>>

\* getTleId(tle): the first line that starts with '2 '
getTleId(tle) ==
  LET lines == TleLines(tle)
      found == { k \in 1..Len(lines) : StartsWithTwo(lines[k]) }
  IN IF found # {} THEN lines[CHOOSE k \in found : \A j \in found : k <= j]
     ELSE "unparsed"

\* allSatsMap: a Map by getTleId that keeps the first object of each id
RECURSIVE addSat(_, _)
addSat(acc, sats) ==
  IF sats = <<>> THEN acc
  ELSE addSat(IF \E i \in 1..Len(acc) : getTleId(acc[i]) = getTleId(Head(sats))
                THEN acc ELSE Append(acc, Head(sats)),
              Tail(sats))

\* App.config.knownSatellites and App.config.brightestSatellites
knownSatellites ==
  <<[name |-> "ISS", line1 |-> "1 25544U", line2 |-> "2 25544"],
    [name |-> "HST", line1 |-> "1 20580U", line2 |-> "2 20580"]>>

brightestSatellites ==
  <<[name |-> "ISS", line1 |-> "1 25544U", line2 |-> "2 25544"]>>

\* what the user can save: a custom TLE under any name
UserTles ==
  { [name |-> n, line1 |-> l[1], line2 |-> l[2]] :
      n \in Names, l \in { <<"1 25544U", "2 25544">>, <<"1 20580U", "2 20580">> } }

\* the largest number of favorites
MaxFavorites == 2

\* the catalog before the first activation of the scanner
CatalogInit ==
  /\ AppInit
  /\ nearby = NearbyOff
  /\ sky = SkyIdle
  /\ tracking = TrackingOff
  /\ scan = [op |-> "init", mySatellites |-> <<>>, allSats |-> <<>>,
             satsToCalculate |-> <<>>, satellites |-> <<>>]

\* the favorite button of a card: mySatellites.toggleFavorite
ToggleFavorite(tle) ==
  /\ LET mySats == scan.mySatellites
         existing == { k \in 1..Len(mySats) : getTleId(mySats[k]) = getTleId(tle) }
     IN IF existing = {}
          THEN /\ Len(mySats) < MaxFavorites
               /\ scan' = [scan EXCEPT !.op = "favorite", !.mySatellites = Append(mySats, tle)]
          ELSE LET k == CHOOSE j \in existing : \A i \in existing : j <= i
               IN scan' = [scan EXCEPT !.op = "favorite",
                                       !.mySatellites = SubSeq(mySats, 1, k - 1)
                                                          \o SubSeq(mySats, k + 1, Len(mySats))]
  /\ UNCHANGED <<appVars, nearby, sky, tracking>>

\* nearbyMode.gatherSatellites()
GatherSatellites ==
  /\ scan.allSats = <<>>
  /\ scan' = [scan EXCEPT !.op = "gather",
                          !.allSats = addSat(<<>>, knownSatellites \o scan.mySatellites
                                                     \o brightestSatellites)]
  /\ UNCHANGED <<appVars, nearby, sky, tracking>>

\* showBestPasses with the source 'all': satsToCalculate
ShowBestPassesAll ==
  /\ scan' = [scan EXCEPT !.op = "all",
                          !.satsToCalculate = addSat(<<>>, scan.mySatellites \o knownSatellites
                                                            \o brightestSatellites)]
  /\ UNCHANGED <<appVars, nearby, sky, tracking>>

\* nearbyMode.update(): the objects of inRadius are within the radius
ScannerUpdate(inRadius) ==
  /\ scan.allSats # <<>>
  /\ LET IsNear(sat) == sat \in inRadius
         currentlyNearby == { getTleId(sat) : sat \in inRadius }
         IsNew(sat) ==
           /\ IsNear(sat)
           /\ ~\E k \in 1..Len(scan.satellites) : getTleId(scan.satellites[k]) = getTleId(sat)
         Stays(sat) == getTleId(sat) \in currentlyNearby
     IN scan' = [scan EXCEPT !.op = "update",
                             !.satellites = SelectSeq(@ \o SelectSeq(scan.allSats, IsNew),
                                                      Stays)]
  /\ UNCHANGED <<appVars, nearby, sky, tracking>>

\* nearbyMode.stop(): the catalog and the active set are emptied
ScannerStop ==
  /\ scan.allSats # <<>>
  /\ scan' = [scan EXCEPT !.op = "stop", !.allSats = <<>>, !.satellites = <<>>]
  /\ UNCHANGED <<appVars, nearby, sky, tracking>>

CatalogNext ==
  \/ \E tle \in UserTles : ToggleFavorite(tle)
  \/ GatherSatellites
  \/ ShowBestPassesAll
  \/ \E inRadius \in SUBSET { scan.allSats[k] : k \in 1..Len(scan.allSats) } :
       ScannerUpdate(inRadius)
  \/ ScannerStop

CatalogSpec == CatalogInit /\ [][CatalogNext]_vars

----------------------------------------------------------------------------
(* the best-passes screen revisited after a completed search: the state the
   application is in when the search of the initial favorites at L1 has
   completed at time 0 (GoToBestPasses, the session's first batch, a click
   on view-more, its second batch) and the user is back on the start screen *)

\* the session of that search after its two batches
CompletedSearch ==
  LET pc0 == [inProgress |-> TRUE, controller |-> 1, daysCalculated |-> 0,
              firstPassFound |-> FALSE, startDate |-> 0,
              satsToCalculate |-> InitialFavorites, renderTarget |-> "bestPasses",
              allFoundPasses |-> <<>>,
              daysPerBatch |-> DaysPerBatch("bestPasses", "favorites")]
      Batch(pc) == AfterBatch(pc, pc.daysPerBatch,
                              PassesOfScans(ScanDays(pc.satsToCalculate, "L1",
                                                     pc.startDate + pc.daysCalculated * MinutesPerDay,
                                                     0, pc.daysPerBatch), 1))
  IN Batch(Batch(pc0))

\* the entry updateViewMoreButton has stored for it
CompletedEntry ==
  [present |-> TRUE, timestamp |-> 0, passes |-> JsonRoundTrip(CompletedSearch.allFoundPasses)]

\* the state after the search, but for the history of the last operation and
\* the count of user events
RevisitState ==
  /\ now = 0
  /\ observerCoords = "L1"
  /\ currentBestPassesSource = "favorites"
  /\ favorites = InitialFavorites
  /\ screen = "start"
  /\ passesModalOpen = FALSE
  /\ passCalculation = CompletedSearch
  /\ abortedControllers = {}
  /\ controllersCreated = 1
  /\ viewMoreDisabled = [t \in Targets |-> t = "bestPasses"]
  /\ viewMoreHidden = [t \in Targets |-> TRUE]
  /\ timers = <<>>
  /\ previousBestPassesLoaded = FALSE
  /\ showPreviousDisabled = FALSE
  /\ sessionStorage = [k \in CacheKeys |->
                         IF k = <<"favorites", "L1">> THEN CompletedEntry ELSE NoEntry]
  /\ pendingShow = FALSE
  /\ sessionFound = SortByStart(CompletedSearch.allFoundPasses)
  /\ cancelUpTo = 1
  /\ firstCompleted = [k \in CacheKeys |->
                         IF k = <<"favorites", "L1">> THEN CompletedEntry ELSE NoEntry]

RevisitInit ==
  /\ RevisitState
  /\ userEvents = 0
  /\ lastOp = OtherOp("other")
  /\ scan = NoScan
  /\ nearby = NearbyOff
  /\ sky = SkyIdle
  /\ tracking = TrackingOff

\* every operation of the application goes on from there
RevisitNext ==
  \/ GoToBestPasses
  \/ \E target \in {"start", "map"} : LeaveScreen(target)
  \/ PendingShowBestPasses
  \/ ClearLocation
  \/ \E loc \in Locations : SetLocation(loc)
  \/ LocationError
  \/ \E source \in Sources : ChangeSource(source)
  \/ \E favs \in FavoriteLists : ChangeFavorites(favs)
  \/ HandlePrediction
  \/ ClosePassesModal
  \/ \E target \in Targets : ClickViewMore(target)
  \/ \E i \in 1..Len(timers) : StartPassCalculation(i)
  \/ \E i \in 1..Len(timers) : BatchCallback(i)
  \/ ClickShowPrevious
  \/ \E i \in 1..Len(timers) : PreviousCallback(i)
  \/ Tick

RevisitSpec == RevisitInit /\ [][RevisitNext]_vars

----------------------------------------------------------------------------
(* the searches of the best-passes screen under fair scheduling: a pending
   setTimeout callback, and the showBestPasses call that follows an
   animation, runs sooner or later; user events and the clock are not
   forced *)

SchedulerNext ==
  \/ GoToBestPasses
  \/ \E target \in {"start", "map"} : LeaveScreen(target)
  \/ PendingShowBestPasses
  \/ \E target \in Targets : ClickViewMore(target)
  \/ \E i \in 1..Len(timers) : StartPassCalculation(i)
  \/ \E i \in 1..Len(timers) : BatchCallback(i)
  \/ Tick

\* a callback of the kind is pending and may run
CallbackPending(kind) == \E i \in 1..Len(timers) : CanFire(i) /\ timers[i].kind = kind

\* a callback of the kind runs: it leaves the list of timers and records
\* its operation
CallbackRuns(kind, op) == timers' # timers /\ lastOp'.op = op

\* weak fairness of the callbacks of a kind: it is not pending forever
\* without running
CallbackFair(kind, op) ==
  \/ []<>(~CallbackPending(kind))
  \/ []<><<CallbackRuns(kind, op)>>_vars

SchedulerFairSpec ==
  /\ Init
  /\ [][SchedulerNext]_vars
  /\ WF_vars(PendingShowBestPasses)
  /\ CallbackFair("start", "startPassCalculation")
  /\ CallbackFair("batch", "batch")

----------------------------------------------------------------------------
(* two consecutive one-day scans of a batch on one stream of samples: the
   second scan starts where the first one ends *)

\* the number of samples of a scan window
WindowSamples == 3

\* the elevations of the samples of the two windows
WindowElevations == {5, ElevationThreshold, 30}

\* a loop that returns the pass in progress together with the closed ones
ScanResult_FlushesOpenPass(d) ==
  IF d.inPass /\ d.currentPass.hasVisibleSegment
    THEN Append(d.finalPasses, ClosePass(d.currentPass))
    ELSE d.finalPasses

\* return finalPasses
ScanResult(d) == d.finalPasses

\* baseDate of a window
WindowBase(window) == ScanBase + (window - 1) * WindowSamples

\* the first scan of the batch is about to start; reported is what the
\* first scan returned, openAtEnd whether it ended within a pass and
\* openedAt the time of the first sample of that pass
WindowsInit ==
  /\ AppInit
  /\ nearby = NearbyOff
  /\ sky = SkyIdle
  /\ tracking = TrackingOff
  /\ scan = [direction |-> "future", window |-> 1, i |-> 0, fed |-> <<>>,
             d |-> DetectorInit("future"), reported |-> <<>>,
             openAtEnd |-> FALSE, openedAt |-> Null]

\* an iteration of the loop of the current scan on a sample of elevation e and
\* visibility v
WindowSample(e, v) ==
  /\ scan.i < WindowSamples
  /\ LET s == [time |-> WindowBase(scan.window) + scan.i, elevation |-> e,
               isVisible |-> v, az |-> 10 * (scan.i + 1)]
     IN scan' = [scan EXCEPT !.i = @ + 1, !.fed = Append(@, s),
                             !.d = DetectorStep(scan.d, s, "future")]
  /\ UNCHANGED <<appVars, nearby, sky, tracking>>

\* the first scan returns and the scan of the next day starts
NextWindow ==
  /\ scan.window = 1
  /\ scan.i = WindowSamples
  /\ scan' = [scan EXCEPT !.window = 2, !.i = 0, !.fed = <<>>,
                          !.d = DetectorInit("future"),
                          !.reported = ScanResult(scan.d),
                          !.openAtEnd = scan.d.inPass,
                          !.openedAt = IF scan.d.inPass
                                         THEN scan.d.currentPass.points[1].time ELSE Null]
  /\ UNCHANGED <<appVars, nearby, sky, tracking>>

WindowsNext ==
  \/ \E e \in WindowElevations, v \in BOOLEAN : WindowSample(e, v)
  \/ NextWindow

WindowsSpec == WindowsInit /\ [][WindowsNext]_vars

----------------------------------------------------------------------------
(* Properties *)

\* C1: in every reachable state the accumulated pass list
\* passCalculation.allFoundPasses is sorted ascending by pass start time
C1_SortedByStart ==
  LET s == passCalculation.allFoundPasses
  IN \A i \in 1..(Len(s) - 1) : s[i].start <= s[i + 1].start

\* a batch or the show-previous callback has just merged passes of different
\* start times into the list
C1_Witness ==
  LET s == passCalculation.allFoundPasses
  IN /\ lastOp.op \in {"batch", "previous"}
     /\ lastOp.ran
     /\ \E i \in 1..(Len(s) - 1) : s[i].start < s[i + 1].start

\* C2: while the session stays cancelled (its controller is aborted and still
\* the current one) the cursor daysCalculated never moves, no batch callback
\* changes the accumulated list, and no step writes a cache entry (an entry
\* only changes by being removed)
C2_CancelledFrozen ==
  [][ ( /\ passCalculation.controller # NoController
        /\ passCalculation.controller \in abortedControllers
        /\ passCalculation'.controller = passCalculation.controller )
      => /\ passCalculation'.daysCalculated = passCalculation.daysCalculated
         /\ passCalculation'.inProgress = FALSE
         /\ lastOp'.op = "batch" =>
              /\ ~lastOp'.ran
              /\ lastOp'.wrote = <<>>
              /\ passCalculation'.allFoundPasses = passCalculation.allFoundPasses
         /\ \A k \in CacheKeys :
              sessionStorage'[k] # sessionStorage[k] => ~sessionStorage'[k].present ]_vars

\* a session cancelled after at least one batch, whose pending batch callback
\* has just run and returned at the abort check
C2_Witness ==
  /\ lastOp.op = "batch"
  /\ ~lastOp.ran
  /\ ~lastOp.threw
  /\ lastOp.sid = passCalculation.controller
  /\ passCalculation.controller \in abortedControllers
  /\ passCalculation.daysCalculated > 0

\* C3: a batch callback scheduled by one session never executes a batch of
\* another: every executed batch (cursor advanced, passes merged, cache
\* possibly written) belongs to the session whose calculateNextPassBatch
\* scheduled the callback
C3_NoStaleSessionWrite ==
  (lastOp.op = "batch" /\ lastOp.ran) => lastOp.sid = lastOp.ctrl

\* C4: a cache entry is written only by a session that is not cancelled and
\* whose cursor has reached passCalculationMaxDays, and the stored list holds
\* every pass the batches of that session found (no partial result set)
C4_CacheWriteOnlyComplete ==
  (lastOp.op = "batch" /\ lastOp.wrote # <<>>) =>
     /\ passCalculation.controller \notin abortedControllers
     /\ passCalculation.daysCalculated >= passCalculationMaxDays
     /\ LET stored == sessionStorage[lastOp.wrote].passes
            found == JsonRoundTrip(sessionFound)
        IN \A i \in 1..Len(found) : \E j \in 1..Len(stored) : stored[j] = found[i]

\* C5: after a change of the observer location (clearing included), of the
\* source or the favorites, or of the screen, no batch of a session that was
\* current at that event is executed
C5_ChangeCancelsSession ==
  (lastOp.op = "batch" /\ lastOp.ran) => lastOp.ctrl > cancelUpTo

\* C6: a best-passes search for a source and a location, made while the
\* first completed search for them is younger than bestPassesCacheTTL, yields
\* the list of that first search, in the same order (a search yields its list
\* at a cache hit or when its session completes)
C6_IdempotentWithinTTL ==
  LET k == <<currentBestPassesSource, observerCoords>>
      NotPast(p) == ~p.isPast
  IN /\ ( /\ lastOp.op = "showBestPasses"
          /\ lastOp.outcome = "cacheHit"
          /\ FirstCompletedValid(firstCompleted[k], now) )
        => SelectSeq(passCalculation.allFoundPasses, NotPast)
             = SelectSeq(firstCompleted[k].passes, NotPast)
     /\ ( /\ lastOp.op = "batch"
          /\ lastOp.wrote # <<>>
          /\ FirstCompletedValid(firstCompleted[lastOp.wrote], now) )
        => SelectSeq(sessionStorage[lastOp.wrote].passes, NotPast)
             = SelectSeq(firstCompleted[lastOp.wrote].passes, NotPast)

\* C7 as stated: in showBestPasses with a location, an entry younger than 15
\* minutes short-circuits (no timer, cursor and controller untouched, the
\* stored list becomes the accumulated list), and an entry of 15 minutes or
\* more is a miss after which a new session is started
C7_ExpiredStartsSession ==
  [][ (lastOp'.op = "showBestPasses" /\ observerCoords' # NoLoc) =>
        LET entry == sessionStorage'[<<currentBestPassesSource', observerCoords'>>]
        IN /\ (entry.present /\ now' - entry.timestamp < 15) =>
                /\ lastOp'.outcome = "cacheHit"
                /\ timers' = timers
                /\ passCalculation'.daysCalculated = passCalculation.daysCalculated
                /\ passCalculation'.controller = passCalculation.controller
                /\ passCalculation'.inProgress = passCalculation.inProgress
                /\ passCalculation'.allFoundPasses = entry.passes
           /\ (entry.present /\ now' - entry.timestamp >= 15) =>
                /\ lastOp'.outcome = "start"
                /\ Len(timers') = Len(timers) + 1
                /\ timers'[Len(timers')].kind = "start" ]_vars

\* C7, amended: as above, but an entry of 15 minutes or more is a miss after
\* which a new session is started when the satellite list of the source is
\* not empty; with an empty list no session is started
C7_ExpiredStartsSessionIfSatellites ==
  [][ (lastOp'.op = "showBestPasses" /\ observerCoords' # NoLoc) =>
        LET entry == sessionStorage'[<<currentBestPassesSource', observerCoords'>>]
            sats == SatsOfSource(currentBestPassesSource', favorites')
        IN /\ (entry.present /\ now' - entry.timestamp < 15) =>
                /\ lastOp'.outcome = "cacheHit"
                /\ timers' = timers
                /\ passCalculation'.daysCalculated = passCalculation.daysCalculated
                /\ passCalculation'.controller = passCalculation.controller
                /\ passCalculation'.inProgress = passCalculation.inProgress
                /\ passCalculation'.allFoundPasses = entry.passes
           /\ (entry.present /\ now' - entry.timestamp >= 15 /\ sats # <<>>) =>
                /\ lastOp'.outcome = "start"
                /\ timers' = Append(timers, StartTimer(sats, "bestPasses"))
           /\ (entry.present /\ now' - entry.timestamp >= 15 /\ sats = <<>>) =>
                /\ lastOp'.outcome = "noSatellites"
                /\ timers' = timers
                /\ passCalculation' = passCalculation ]_vars

\* showBestPasses has just met an entry of exactly the TTL's age and has
\* scheduled a new session
C7_Witness ==
  LET entry == sessionStorage[<<currentBestPassesSource, observerCoords>>]
  IN /\ lastOp.op = "showBestPasses"
     /\ observerCoords # NoLoc
     /\ entry.present
     /\ now - entry.timestamp = 15
     /\ lastOp.outcome = "start"

\* C8: startPassCalculation aborts the controller of a prior session in
\* progress and leaves the new session in progress with daysCalculated = 0,
\* an empty list, firstPassFound = FALSE and a controller never used before
\* and not aborted; daysPerBatch is 1 for the best passes of source 'all', 15
\* for those of the favorites, 5 for the modal
C8_StartResets ==
  [][ lastOp'.op = "startPassCalculation" =>
        /\ passCalculation.inProgress => passCalculation.controller \in lastOp'.aborted
        /\ passCalculation'.inProgress
        /\ passCalculation'.daysCalculated = 0
        /\ passCalculation'.allFoundPasses = <<>>
        /\ passCalculation'.firstPassFound = FALSE
        /\ passCalculation'.controller > controllersCreated
        /\ passCalculation'.controller \notin abortedControllers'
        /\ passCalculation'.controller \notin lastOp'.aborted
        /\ passCalculation'.daysPerBatch =
             ( IF passCalculation'.renderTarget = "bestPasses"
                 THEN (IF currentBestPassesSource = "all" THEN 1 ELSE 15)
                 ELSE 5 ) ]_vars

\* startPassCalculation has just replaced a session in progress by a session
\* over the whole catalog
C8_Witness ==
  /\ lastOp.op = "startPassCalculation"
  /\ lastOp.sid # NoController
  /\ lastOp.sid \in lastOp.aborted
  /\ passCalculation.renderTarget = "bestPasses"
  /\ currentBestPassesSource = "all"
  /\ passCalculation.daysPerBatch = 1

\* C9: an executed batch scans, for each of the daysPerBatch days from the
\* cursor on and in that order, each satellite of the session once, then
\* advances the cursor by daysPerBatch; firstPassFound is set by a batch
\* that found a pass and is not reset while the session is the current one
C9_BatchScansAndAdvances ==
  [][ /\ (lastOp'.op = "batch" /\ lastOp'.ran) =>
           LET sats == passCalculation.satsToCalculate
               n == Len(sats)
               size == passCalculation.daysPerBatch
           IN /\ lastOp'.batchSize = size
              /\ lastOp'.firstDay = passCalculation.daysCalculated
              /\ Len(lastOp'.scanned) = size * n
              /\ \A d \in 0..(size - 1) : \A j \in 1..n :
                   lastOp'.scanned[d * n + j]
                     = <<sats[j], passCalculation.daysCalculated + d>>
              /\ passCalculation'.daysCalculated = passCalculation.daysCalculated + size
              /\ passCalculation'.firstPassFound
                   = (passCalculation.firstPassFound \/ lastOp'.found)
      /\ (passCalculation'.controller = passCalculation.controller
            /\ passCalculation.firstPassFound) => passCalculation'.firstPassFound ]_vars

\* the second batch of a session has just run, right after the days of the
\* first, and found a pass
C9_Witness ==
  /\ lastOp.op = "batch"
  /\ lastOp.ran
  /\ lastOp.firstDay > 0
  /\ lastOp.firstDay = lastOp.batchSize
  /\ lastOp.found
  /\ passCalculation.firstPassFound

\* C10: a session that is not cancelled is complete (inProgress = FALSE)
\* exactly when its cursor has reached passCalculationMaxDays, and no batch
\* is executed for a session whose cursor has reached it
C10_CompleteAtHorizon ==
  /\ ( /\ passCalculation.controller # NoController
       /\ passCalculation.controller \notin abortedControllers )
     => (passCalculation.inProgress <=> passCalculation.daysCalculated < passCalculationMaxDays)
  /\ (lastOp.op = "batch" /\ lastOp.ran) => lastOp.firstDay < passCalculationMaxDays

\* C11: a batch callback of a session that has been cancelled returns at the
\* abort check when it fires: it scans nothing, renders nothing, leaves the
\* cursor where it is and re-enables the view-more button it had disabled
C11_CancelledBatchAborts ==
  [][ ( /\ lastOp'.op = "batch"
        /\ lastOp'.sid # NoController
        /\ lastOp'.sid \in abortedControllers )
      => /\ ~lastOp'.ran
         /\ ~lastOp'.threw
         /\ lastOp'.scanned = <<>>
         /\ passCalculation' = passCalculation
         /\ viewMoreHidden' = viewMoreHidden
         /\ sessionStorage' = sessionStorage
         /\ \E t \in Targets : viewMoreDisabled' = [viewMoreDisabled EXCEPT ![t] = FALSE] ]_vars

\* C12: at most one batch callback is pending at any time, a request made
\* while one is pending schedules nothing, and a batch callback schedules no
\* further callback
C12_OneBatchPending ==
  [][ LET Pending(tms) == { i \in 1..Len(tms) : tms[i].kind = "batch" }
      IN /\ Cardinality(Pending(timers')) <= 1
         /\ lastOp'.op = "batch" => Len(timers') = Len(timers) - 1 ]_vars

\* C13: every pass the detector emits, scanning forward or backward, has
\* start <= end, and start and end are times of samples whose elevation is
\* above the threshold
C13_WindowInsideGeometricPass ==
  \A k \in 1..Len(scan.d.finalPasses) :
    LET p == scan.d.finalPasses[k]
        Above(t) == \E j \in 1..Len(scan.fed) :
                      /\ scan.fed[j].time = t
                      /\ scan.fed[j].elevation > ElevationThreshold
    IN /\ p.start <= p.end
       /\ Above(p.start)
       /\ Above(p.end)

\* C14: the maxElevation of every emitted pass is the greatest elevation among
\* the samples of its buffer that are visible, and of no other sample
C14_MaxElevationOverVisible ==
  \A k \in 1..Len(scan.d.finalPasses) :
    LET p == scan.d.finalPasses[k]
        visible == { j \in 1..Len(p.points) : p.points[j].isVisible }
    IN /\ visible # {}
       /\ \E j \in visible : p.points[j].elevation = p.maxElevation
       /\ \A j \in visible : p.points[j].elevation <= p.maxElevation

\* an emitted pass whose buffer holds an invisible sample higher than every
\* visible one
C14_Witness ==
  \E k \in 1..Len(scan.d.finalPasses) :
    LET p == scan.d.finalPasses[k]
    IN /\ \E j \in 1..Len(p.points) : ~p.points[j].isVisible
                                      /\ p.points[j].elevation > p.maxElevation
       /\ \E i, j \in 1..Len(p.points) : /\ p.points[i].isVisible /\ p.points[j].isVisible
                                         /\ p.points[i].elevation < p.points[j].elevation

\* C15: every emitted pass has at least two visible samples in its buffer
C15_TwoVisibleSamples ==
  \A k \in 1..Len(scan.d.finalPasses) :
    LET p == scan.d.finalPasses[k]
    IN Cardinality({ j \in 1..Len(p.points) : p.points[j].isVisible }) >= 2

\* C16: an iteration that closes a pass whose buffer holds no visible sample
\* emits nothing, and a stream that stays above the threshold and is never
\* visible leaves the result empty
C16_NeverVisibleNeverEmitted ==
  [][ /\ ( /\ scan.d.inPass
           /\ ~scan'.d.inPass
           /\ Len(scan'.fed) = Len(scan.fed) + 1
           /\ \A j \in 1..Len(scan'.d.currentPass.points) :
                ~scan'.d.currentPass.points[j].isVisible )
        => scan'.d.finalPasses = scan.d.finalPasses
      /\ ( \A j \in 1..Len(scan'.fed) : /\ scan'.fed[j].elevation > ElevationThreshold
                                        /\ ~scan'.fed[j].isVisible )
        => scan'.d.finalPasses = <<>> ]_vars

\* a pass of several samples, none visible, has been closed and nothing was
\* emitted
C16_Witness ==
  /\ ~scan.d.inPass
  /\ scan.d.currentPass.end # Null
  /\ Len(scan.d.currentPass.points) >= 3
  /\ \A j \in 1..Len(scan.d.currentPass.points) : ~scan.d.currentPass.points[j].isVisible
  /\ scan.d.finalPasses = <<>>

\* C19: after every proximity tick the active set holds exactly the catalog
\* objects whose propagation succeeded in that tick and whose ground distance
\* to the observer is at most 1200 km, each once
C19_ActiveSetWithinRadius ==
  nearby.lastOp = "update"
    => /\ SatIds(nearby.satellites) =
            { id \in SatIds([k \in 1..Len(Catalog) |-> [id |-> Catalog[k]]]) :
                sky.outcome[id].ok /\ sky.outcome[id].distance <= 1200 }
       /\ Cardinality(SatIds(nearby.satellites)) = Len(nearby.satellites)

\* a tick has evicted an object whose propagation failed and added an object
\* that is exactly at the radius
C19_Witness ==
  /\ nearby.lastOp = "update"
  /\ \E id \in nearby.before : id \notin SatIds(nearby.satellites) /\ ~sky.outcome[id].ok
  /\ \E id \in SatIds(nearby.satellites) :
       id \notin nearby.before /\ sky.outcome[id].distance = 1200

\* C17: when the orbit of the selected satellite is clipped, two consecutive
\* samples at 1300 km and at 1100 km from the observer give exactly one
\* interpolated crossing point and two drawn segments, first the one outside
\* the circle, which holds the sample at 1300 km, then the one inside, which
\* starts at the crossing point and holds the sample at 1100 km
C17_CrossingOpensInsideSegment ==
  ( /\ nearby.lastOp = "update"
    /\ nearby.selectedSatForOrbit \in SatIds(nearby.satellites) )
  => \A i \in 1..(Len(sky.track) - 1) :
       LET Dist(p) == calculateDistance(p.lat, p.lon, ObserverPoint.lat, ObserverPoint.lon)
           sat == CHOOSE x \in { nearby.satellites[k] : k \in 1..Len(nearby.satellites) } :
                    x.id = nearby.selectedSatForOrbit
           drawn == { k \in 1..Len(sat.orbitLayers) : sat.orbitLayers[k].offset = 0 }
           Holds(k, p) == \E j \in 1..Len(sat.orbitLayers[k].points) :
                            sat.orbitLayers[k].points[j] = Flagged(sky, p)
           found == { k \in 1..Len(nearby.crossings) : nearby.crossings[k].i = i }
       IN ( Dist(sky.track[i]) = Hm(1300) /\ Dist(sky.track[i + 1]) = Hm(1100) )
          => /\ Cardinality(found) = 1
             /\ \E out, in \in drawn :
                  /\ out < in
                  /\ Holds(out, sky.track[i])
                  /\ Holds(in, sky.track[i + 1])
                  /\ \A k \in found :
                       sat.orbitLayers[in].points[1] = nearby.crossings[k].point

\* C18: every crossing point computed in an update has an interpolation
\* parameter (R - d1) / (d2 - d1) between 0 and 1 and lies within 1 km of the
\* distance R from the observer
C18_CrossingOnCircle ==
  nearby.lastOp = "update"
    => \A k \in 1..Len(nearby.crossings) :
         LET x == nearby.crossings[k]
             num == Hm(radiusKm) - x.d1
             den == x.d2 - x.d1
             d == calculateDistance(x.point.lat, x.point.lon,
                                    ObserverPoint.lat, ObserverPoint.lon)
         IN /\ \/ den > 0 /\ 0 <= num /\ num <= den
               \/ den < 0 /\ den <= num /\ num <= 0
            /\ d - Hm(radiusKm) <= Hm(1)
            /\ Hm(radiusKm) - d <= Hm(1)

C21_NoLocationNoError ==
  [][ LET Starts(tms) == Cardinality({ i \in 1..Len(tms) : tms[i].kind = "start" })
      IN /\ observerCoords' = NoLoc => Starts(timers') <= Starts(timers)
         /\ (lastOp'.op = "showBestPasses" /\ observerCoords' = NoLoc)
              => /\ lastOp'.outcome = "noLocation"
                 /\ ~lastOp'.threw
                 /\ viewMoreHidden'["bestPasses"]
         /\ (lastOp'.op = "batch" /\ observerCoords' = NoLoc)
              => /\ ~lastOp'.threw
                 /\ ~viewMoreDisabled'[ButtonOf(passCalculation')] ]_vars

\* C22: on every sample the detector goes from IDLE to IN_PASS exactly when
\* the elevation is above the threshold, and from IN_PASS to IDLE exactly when
\* it is below; the sample of an iteration that is or becomes IN_PASS is
\* appended to the buffer of the one open pass; and the windows of the passes
\* emitted by a scan do not overlap
C22_IdleInPassIdle ==
  [][ Len(scan'.fed) = Len(scan.fed) + 1
      => LET s == scan'.fed[Len(scan'.fed)]
             Lo(p) == IF p.start <= p.end THEN p.start ELSE p.end
             Hi(p) == IF p.start <= p.end THEN p.end ELSE p.start
             passes == scan'.d.finalPasses
         IN /\ ~scan.d.inPass => (scan'.d.inPass <=> s.elevation > ElevationThreshold)
            /\ scan.d.inPass => (~scan'.d.inPass <=> s.elevation < ElevationThreshold)
            /\ (~scan.d.inPass /\ s.elevation > ElevationThreshold)
                 => scan'.d.currentPass.points = <<s>>
            /\ scan.d.inPass
                 => scan'.d.currentPass.points = Append(scan.d.currentPass.points, s)
            /\ (~scan.d.inPass /\ s.elevation <= ElevationThreshold)
                 => scan'.d.currentPass = scan.d.currentPass
            /\ \A k, l \in 1..Len(passes) :
                 k < l => \/ Hi(passes[k]) < Lo(passes[l])
                          \/ Hi(passes[l]) < Lo(passes[k]) ]_vars

\* a scan in which nothing was thrown has emitted two passes
C22_Witness ==
  /\ Len(scan.d.finalPasses) >= 2
  /\ scan.threw = 0

\* C23: a forward scan holds one pass per period of the sky it has sampled
\* until it has 20, stops there and never holds more; a backward scan goes
\* on and holds one pass per period sampled, beyond 20
C23_ForwardScanStopsAtMaximum ==
  LET n == Len(scan.d.finalPasses)
      periods == scan.i \div scan.period
  IN /\ scan.direction = "future"
          => /\ n <= 20
             /\ n = (IF periods < 20 THEN periods ELSE 20)
             /\ scan.d.stopped <=> (n = 20)
             /\ scan.i <= 20 * scan.period
     /\ scan.direction = "past"
          => /\ n = periods
             /\ ~scan.d.stopped

\* a forward scan has stopped with 20 passes where the sky had more to give
C23_Witness ==
  /\ scan.direction = "future"
  /\ scan.d.stopped
  /\ Len(scan.d.finalPasses) = 20
  /\ scan.i < MaxPeriodicSamples

\* C24: a backward scan that reads the samples of a forward scan in reverse
\* order emits passes with the same visible windows and the same maxElevation
\* as the forward scan, marked isPast where the forward ones are not; stated
\* for sample sequences that begin and end below the threshold
C24_PastMirrorsFuture ==
  (/\ scan.direction = "future"
   /\ scan.threw = 0
   /\ Len(scan.fed) >= 2
   /\ scan.fed[1].elevation < ElevationThreshold
   /\ scan.fed[Len(scan.fed)].elevation < ElevationThreshold)
  => LET n == Len(scan.fed)
         reversed == [k \in 1..n |-> scan.fed[n + 1 - k]]
         back == DetectorFeed(DetectorInit("past"), reversed, 1, "past").finalPasses
         fwd == scan.d.finalPasses
         Lo(p) == IF p.start <= p.end THEN p.start ELSE p.end
         Hi(p) == IF p.start <= p.end THEN p.end ELSE p.start
         Windows(ps) == { <<Lo(ps[k]), Hi(ps[k]), ps[k].maxElevation>> : k \in 1..Len(ps) }
     IN /\ Windows(back) = Windows(fwd)
        /\ \A k \in 1..Len(back) : back[k].isPast
        /\ \A k \in 1..Len(fwd) : ~fwd[k].isPast

\* C25: every emitted pass, of a forward and of a backward scan, has as startAz
\* the azimuth of its first visible sample and as endAz the azimuth of its last
\* visible sample
C25_AzimuthsOfVisibleEnds ==
  \A k \in 1..Len(scan.d.finalPasses) :
    LET p == scan.d.finalPasses[k]
        IsVis(q) == q.isVisible
        vis == SelectSeq(p.points, IsVis)
    IN /\ vis # <<>>
       /\ p.startAz = vis[1].az
       /\ p.endAz = vis[Len(vis)].az

\* C26: an iteration whose propagation throws leaves the state of the detector
\* and the buffer of the open pass as they were, and the passes of the scan are
\* those of the same scan without the failed iterations
C26_FailedSampleOnlySkipped ==
  [][ scan'.threw = scan.threw + 1
      => /\ scan'.d = scan.d
         /\ scan'.d.finalPasses
              = DetectorFeed(DetectorInit(scan.direction), scan'.fed, 1,
                             scan.direction).finalPasses ]_vars

\* C27: a proximity tick leaves no object in nearby.satellites whose
\* propagation failed; a live-tracking tick removes from trackedSatellites
\* exactly the objects whose propagation failed; and the tick that removes the
\* last tracked object ends without an error that nothing catches
C27_FailedObjectDropped ==
  [][ /\ (nearby'.active /\ nearby'.lastOp = "update" /\ sky' = sky)
           => \A k \in 1..Len(nearby'.satellites) :
                sky.outcome[nearby'.satellites[k].id].ok
      /\ (/\ tracking'.lastOp = "tick" /\ tracking' # tracking
          /\ ~nearby.active /\ nearby' = nearby /\ sky' = sky)
           => /\ SatIds(tracking'.trackedSatellites)
                   = { id \in SatIds(tracking.trackedSatellites) : sky.outcome[id].ok }
              /\ (tracking.trackedSatellites # <<>> /\ tracking'.trackedSatellites = <<>>)
                   => ~tracking'.threw ]_vars

\* C28: at most one update interval runs; while the mode is off none runs, the
\* active set and the cached catalog are empty, no object is selected, and
\* nearbyMode.update changes nothing
C28_StopDestroysEntries ==
  /\ Cardinality(nearby.running) <= 1
  /\ ~nearby.active
       => /\ nearby.running = {}
          /\ nearby.updateInterval = 0
          /\ nearby.satellites = <<>>
          /\ nearby.allSats = <<>>
          /\ nearby.selectedSatForOrbit = "none"
          /\ [nearbyUpdate(nearby, sky, observerCoords) EXCEPT !.lastOp = nearby.lastOp]
               = nearby

\* the mode has been stopped while the sky holds an object within the radius
C28_Witness ==
  /\ nearby.lastOp = "stop"
  /\ ~nearby.active
  /\ \E id \in DOMAIN sky.outcome :
       sky.outcome[id].ok /\ sky.outcome[id].distance <= radiusKm

\* C29: in a tick, an entry that was active before it (a proximity entry, or a
\* tracked satellite) gets the bearing computed from the position 1 second
\* ahead; when that propagation throws, or lands 180 degrees of longitude or
\* more away, its marker keeps the bearing the previous tick stored and
\* lastBearing is unchanged
C29_BearingFallsBack ==
  [][ LET Recomputed(id) == sky.outcome[id].ahead.ok /\ ~sky.outcome[id].ahead.wraps
          Kept(old, new, shown) ==
            IF Recomputed(old.id)
              THEN /\ new.lastBearing = sky.outcome[old.id].ahead.bearing
                   /\ shown => new.rotation = sky.outcome[old.id].ahead.bearing
              ELSE /\ new.lastBearing = old.lastBearing
                   /\ shown => new.rotation = old.lastBearing
      IN /\ (/\ nearby.active /\ nearby'.active /\ nearby'.lastOp = "update"
             /\ nearby' # nearby /\ sky' = sky /\ tracking' = tracking)
              => \A k \in 1..Len(nearby.satellites), l \in 1..Len(nearby'.satellites) :
                   nearby.satellites[k].id = nearby'.satellites[l].id
                     => Kept(nearby.satellites[k], nearby'.satellites[l], TRUE)
         /\ (/\ tracking'.lastOp = "tick" /\ tracking' # tracking
             /\ ~nearby.active /\ nearby' = nearby /\ sky' = sky)
              => \A k \in 1..Len(tracking.trackedSatellites),
                    l \in 1..Len(tracking'.trackedSatellites) :
                   tracking.trackedSatellites[k].id = tracking'.trackedSatellites[l].id
                     => Kept(tracking.trackedSatellites[k], tracking'.trackedSatellites[l],
                             tracking.trackedSatellites[k].markers) ]_vars

\* a proximity tick has just run in which the look-ahead of an entry failed,
\* and the entry shows the bearing 45 that an earlier tick stored
C29_Witness ==
  /\ nearby.active
  /\ nearby.lastOp = "update"
  /\ \E k \in 1..Len(nearby.satellites) :
       /\ ~sky.outcome[nearby.satellites[k].id].ahead.ok
       /\ nearby.satellites[k].lastBearing = 45
       /\ nearby.satellites[k].rotation = 45

\* C30: every polyline drawn by the clipping of the selected orbit has all its
\* points inside or on the circle of radiusKm around the observer, and all its
\* points carry the visibility flag the polyline is styled with
C30_SegmentsConsistent ==
  \A k \in 1..Len(nearby.satellites) :
    \A l \in 1..Len(nearby.satellites[k].orbitLayers) :
      LET layer == nearby.satellites[k].orbitLayers[l]
      IN \A m \in 1..Len(layer.points) :
           /\ calculateDistance(layer.points[m].lat, layer.points[m].lon,
                                ObserverPoint.lat, ObserverPoint.lon) <= Hm(radiusKm)
           /\ layer.points[m].isVisible = layer.isVisible

\* the ids of the tracked satellites
TrackedIds(tr) == { tr.trackedSatellites[k].id : k \in 1..Len(tr.trackedSatellites) }

\* C31: with N > 1 tracked objects and real time, every 10-second tick redraws
\* the orbit of exactly one tracked object and advances the next index
\* cyclically modulo N, so that the last N ticks since the tracked set last
\* changed have redrawn N different tracked objects; this holds also after the
\* tracked set has shrunk or has been replaced.
C31_RoundRobinRedraw ==
  [][ ( /\ tracking'.lastOp = "staggered"
        /\ tracking' # tracking
        /\ ~tracking.isTimeTraveling
        /\ Len(tracking.trackedSatellites) > 1 )
      => LET N == Len(tracking'.trackedSatellites)
             log == tracking'.redrawn
         IN /\ N = Len(tracking.trackedSatellites)
            /\ log[Len(log)] \in TrackedIds(tracking')
            /\ tracking'.nextSatToUpdateIndex = (tracking.nextSatToUpdateIndex + 1) % N
            /\ Len(log) >= N =>
                 Cardinality({ log[k] : k \in (Len(log) - N + 1)..Len(log) }) = N ]_vars

\* C32: on the 1-second tick in real time with exactly one tracked object, the
\* cached next visible pass is recomputed when the current time is more than
\* 2 minutes past its end, and is left alone otherwise; while time-traveling
\* neither tick touches the cached pass or overwrites the simulated time.
C32_TickRecomputesExpiredPass ==
  [][ ( /\ tracking'.lastOp \in {"tick", "staggered"}
        /\ UNCHANGED <<now, sky, observerCoords>> )
      => /\ tracking.isTimeTraveling =>
              /\ tracking'.nextVisiblePass = tracking.nextVisiblePass
              /\ tracking'.computedAt = tracking.computedAt
              /\ tracking'.currentTime = tracking.currentTime
         /\ ( /\ ~tracking.isTimeTraveling
              /\ tracking'.lastOp = "tick"
              /\ ~tracking'.threw
              /\ Len(tracking'.trackedSatellites) = 1 ) =>
              IF /\ tracking.nextVisiblePass # NoPass
                 /\ now > tracking.nextVisiblePass.end + 2
                THEN LET passes == calculateVisiblePasses(tracking'.trackedSatellites[1].id,
                                                          observerCoords, 2, "future", now)
                     IN /\ tracking'.computedAt = now
                        /\ tracking'.nextVisiblePass =
                             IF passes = <<>> THEN NoPass
                             ELSE [start |-> passes[1].start, end |-> passes[1].end]
                ELSE /\ tracking'.nextVisiblePass = tracking.nextVisiblePass
                     /\ tracking'.computedAt = tracking.computedAt ]_vars

\* a tick has recomputed the pass of the one tracked satellite, which had been
\* found earlier and had ended more than 2 minutes before the tick
C32_Witness ==
  /\ tracking.lastOp = "tick"
  /\ ~tracking.isTimeTraveling
  /\ Len(tracking.trackedSatellites) = 1
  /\ tracking.computedAt = now
  /\ tracking.currentTime = now
  /\ tracking.nextVisiblePass # NoPass
  /\ now > tracking.nextVisiblePass.end + 2

\* C40: whenever findNextVisiblePass stores a non-null pass, that pass has not
\* expired at the time it is stored (its end plus 2 minutes is not before the
\* current time), so the stored pass is a pass ending after the search and
\* the next 1-second tick does not recompute it.
C40_StoredPassNotExpired ==
  tracking.nextVisiblePass # NoPass
    => tracking.nextVisiblePass.end + 2 >= tracking.computedAt

\* the last line of the element set of each object of a list
LastLines(sats) == [k \in 1..Len(sats) |-> TleLines(sats[k])[Len(TleLines(sats[k]))]]

\* no two entries of a list are equal
NoRepeat(seq) == \A i, j \in 1..Len(seq) : seq[i] = seq[j] => i = j

\* C33: the identity of an object is the last line of its element set, and
\* the catalog gathered for the proximity scanner, the satellite set of the
\* 'all' best-passes source and the active set of the scanner never contain
\* two objects with the same identity.
C33_NoSharedIdentity ==
  /\ NoRepeat(LastLines(scan.allSats))
  /\ NoRepeat(LastLines(scan.satsToCalculate))
  /\ NoRepeat(LastLines(scan.satellites))

\* the windows (start, end) of every pass a scan of sat at loc can give
WindowsComputedFor ==
  [sat \in Satellites, loc \in Locations |->
     UNION ( { { <<FutureScan[x][k].start, FutureScan[x][k].end>> : k \in 1..Len(FutureScan[x]) } :
                x \in { y \in DOMAIN FutureScan : y[1] = sat /\ y[2] = loc } }
             \cup
             { { <<PastScan[x][k].start, PastScan[x][k].end>> : k \in 1..Len(PastScan[x]) } :
                x \in { y \in DOMAIN PastScan : y[1] = sat /\ y[2] = loc } } )]

\* the satellites a source can stand for, under any list of favorites
SatsOfSourceEver(source) ==
  UNION { { SatsOfSource(source, favs)[k] : k \in 1..Len(SatsOfSource(source, favs)) } :
            favs \in FavoriteLists }

\* C34: every cache entry under the key (source, location) holds only passes
\* computed for a satellite of that source and for that observer location,
\* whatever the interleaving of batch callbacks with location and source
\* changes.
C34_CacheEntryOfItsKey ==
  \A key \in CacheKeys :
    LET entry == sessionStorage[key]
    IN entry.present =>
         \A k \in 1..Len(entry.passes) :
           /\ entry.passes[k].satName \in SatsOfSourceEver(key[1])
           /\ <<entry.passes[k].start, entry.passes[k].end>>
                \in WindowsComputedFor[entry.passes[k].satName, key[2]]

\* the names of the satellites of a list of passes
SatNames(passes) == { passes[k].satName : k \in 1..Len(passes) }

\* C35: the list a showBestPasses request yields, from the cache or from the
\* batches of the session it starts, holds only passes of objects of the
\* satellite set at the time of the request; after the favorites have
\* changed, a request within the TTL does not yield passes of the earlier set.
C35_ListOfRequestedSet ==
  [][ ( /\ lastOp'.op = "showBestPasses"
        /\ lastOp'.outcome = "cacheHit" )
      => SatNames(passCalculation'.allFoundPasses)
           \subseteq { SatsOfSource(currentBestPassesSource', favorites')[k] :
                         k \in 1..Len(SatsOfSource(currentBestPassesSource', favorites')) }
    ]_vars

\* C36: every session started by startPassCalculation that is not cancelled
\* eventually executes its first batch: the view-more control of its target
\* is never left disabled so that calculateNextPassBatch returns without
\* scheduling a batch.
C36_FirstBatchRuns ==
  \A c \in 1..MaxSessions :
    (passCalculation.controller = c /\ passCalculation.inProgress)
      ~> \/ c \in abortedControllers
         \/ passCalculation.controller = c /\ passCalculation.daysCalculated > 0

\* the span of time of a pass, whichever of start and end comes first
PassFrom(p) == IF p.start <= p.end THEN p.start ELSE p.end
PassUntil(p) == IF p.start <= p.end THEN p.end ELSE p.start

\* two entries are the same pass of the same object: same satellite and
\* spans of time that overlap
SamePass(p, q) ==
  /\ p.satName = q.satName
  /\ PassFrom(p) <= PassUntil(q)
  /\ PassFrom(q) <= PassUntil(p)

\* C37: the accumulated pass list never holds the same pass of the same
\* object twice, neither from successive batches nor from the merge of the
\* historical passes of showPreviousBestPasses with the passes of the session.
C37_NoPassTwice ==
  \A i, j \in 1..Len(passCalculation.allFoundPasses) :
    SamePass(passCalculation.allFoundPasses[i], passCalculation.allFoundPasses[j]) => i = j

\* the batch size of the session: passCalculation.daysPerBatch || batchSize
BatchSizeOf(pc) == IF pc.daysPerBatch # 0 THEN pc.daysPerBatch ELSE passCalculationBatchSize

\* a session in progress has a token that is not aborted
TokenOfSessionInProgress ==
  passCalculation.inProgress
    => /\ passCalculation.controller # NoController
       /\ passCalculation.controller \notin abortedControllers

\* the cursor is a multiple of the batch size within the horizon
CursorWithinHorizon ==
  /\ passCalculation.daysCalculated >= 0
  /\ passCalculation.daysCalculated % BatchSizeOf(passCalculation) = 0
  /\ passCalculation.daysCalculated <= passCalculationMaxDays

\* renderScreen and the closing of the passes modal call stopPassCalculation:
\* on a session that is not in progress it changes nothing
CancelOfFinishedChangesNothing ==
  ( /\ screen' # screen \/ (passesModalOpen /\ ~passesModalOpen')
    /\ ~passCalculation.inProgress )
  => UNCHANGED <<passCalculation, abortedControllers>>

\* C38: inProgress = true implies that a token exists and is not aborted;
\* daysCalculated is a non-negative multiple of the batch size and never
\* exceeds the 30-day horizon; cancelling a session that has finished or has
\* been cancelled changes nothing.
C38_SessionStateConsistent ==
  /\ [](TokenOfSessionInProgress /\ CursorWithinHorizon)
  /\ [][CancelOfFinishedChangesNothing]_vars

\* the times of the samples of a pass
PointTimes(p) == { p.points[k].time : k \in 1..Len(p.points) }

\* the passes the two scans have returned so far
ReportedSoFar == scan.reported \o ScanResult(scan.d)

\* C39: a pass that is still open when the scan window ends is never emitted,
\* and a scan whose first sample is above 10 degrees opens a pass at the
\* start of the window; so with one-day windows a pass that straddles the
\* day boundary is reported at most once and only with its part in the later
\* day.
C39_OpenPassNotEmitted ==
  \* every returned pass was closed by a sample below the threshold
  /\ \A k \in 1..Len(ReportedSoFar) :
       ReportedSoFar[k].points[Len(ReportedSoFar[k].points)].elevation < ElevationThreshold
  \* the pass in progress is not among the returned ones
  /\ scan.d.inPass =>
       \A k \in 1..Len(ScanResult(scan.d)) :
         PointTimes(ScanResult(scan.d)[k]) \cap PointTimes(scan.d.currentPass) = {}
  \* a first sample above the threshold opens a pass at the window start
  /\ (scan.i = 1 /\ scan.fed[1].elevation > ElevationThreshold) =>
       /\ scan.d.inPass
       /\ scan.d.currentPass.start = WindowBase(scan.window)
       /\ scan.d.currentPass.points[1].time = WindowBase(scan.window)
  \* a pass that straddles the boundary: nothing of the earlier day is
  \* reported, and at most one pass holds its part of the later day, which
  \* starts at the boundary or later
  /\ (scan.window = 2 /\ scan.openAtEnd /\ scan.i >= 1
        /\ scan.fed[1].elevation > ElevationThreshold) =>
       /\ \A k \in 1..Len(scan.reported) :
            \A t \in PointTimes(scan.reported[k]) : t < scan.openedAt
       /\ Cardinality({ k \in 1..Len(scan.d.finalPasses) :
                          WindowBase(2) \in PointTimes(scan.d.finalPasses[k]) }) <= 1
       /\ \A k \in 1..Len(scan.d.finalPasses) :
            WindowBase(2) \in PointTimes(scan.d.finalPasses[k])
              => scan.d.finalPasses[k].start >= WindowBase(2)

\* a pass straddled the boundary and the second scan has reported its later
\* part
C39_Witness ==
  /\ scan.window = 2
  /\ scan.openAtEnd
  /\ \E k \in 1..Len(scan.d.finalPasses) :
       /\ WindowBase(2) \in PointTimes(scan.d.finalPasses[k])
       /\ scan.d.finalPasses[k].start >= WindowBase(2)
  /\ scan.reported # <<>>

====
